---- MODULE Spec2Model ----
(***************************************************************************)
(* A model of the Pawli Mandelbrot explorer (src/App.tsx and               *)
(* src/utils/fractalUtils.ts): the navigation controller of the App        *)
(* component (viewport state, drag / click / dive handlers, the React      *)
(* effects that follow every state change) and the deferred frame render.  *)
(*                                                                         *)
(* JavaScript numbers are modelled as exact rationals <<n, d>> (d > 0, in  *)
(* lowest terms).  The range and rounding of IEEE-754 doubles (overflow to *)
(* Infinity, underflow to 0 after about 1075 halvings, rounding of 1.05    *)
(* and 0.2) are outside the model; the model's bounds keep every value far *)
(* from those limits.  The escape loop alone, which cannot be followed in  *)
(* exact arithmetic beyond a few turns, rounds each result as floating     *)
(* point does, to a significand of Precision bits.                         *)
(*                                                                         *)
(* One action is one event-loop task: a DOM event handler, a timer         *)
(* callback or a setTimeout callback, together with the React commit that  *)
(* follows it (state update, re-render, effects whose dependencies         *)
(* changed).                                                               *)
(*                                                                         *)
(* Spec is the application under its events; in it a sweep is one step     *)
(* and the buffer it puts on the canvas is named by the values it was      *)
(* computed from.  SpecRender follows the sweep of one frame pixel by      *)
(* pixel: escape loop, colour, and the bytes written to the buffer.        *)
(* SpecVisit is Spec started later in a session, at a landmark.            *)
(* SpecSample runs the body of the sweep's inner loop on single pixels of  *)
(* full-size canvases.  SpecVariant is the second App component, the one   *)
(* src/utils/fractalUtils.ts carries after its colour functions.           *)
(* SpecGame follows the achievements and the AI analysis request of either *)
(* component, with React's update queue and effects as steps of their own; *)
(* SpecGameLive is SpecGame under fairness.                                *)
(***************************************************************************)
EXTENDS Integers, Sequences, FiniteSets, TLC

VARIABLES
  view,               \* useState<ViewState>
  isContinuousZoom,   \* useState(false)
  zoomTarget,         \* useState({x: 0, y: 0})
  isDraggingRef,      \* useRef(false)
  lastMousePosRef,    \* useRef({x: 0, y: 0}), client coordinates (see NoDrag)
  dragDistanceRef,    \* useRef(0) (see NoDrag)
  sidebarOpen,        \* useState(true): decides the canvas' layout box
  canvas,             \* the canvas element's width / height attributes
  continuousZoomRef,  \* useRef(null): the interval the ref points to
  intervals,          \* the live setInterval timers, each with its closure
  pending,            \* the setTimeout(..., 0) callbacks of draw(), in order
  isRendering,        \* useState(false)
  shown,              \* what the last putImageData put on the canvas
  dailyChallenge,     \* useState<DailyChallenge | null>, set on mount
  gesture,            \* history: the viewport at the pointer-down of the drag
  ops,                \* history: number of events handled so far
  last,               \* history: the event handled last
  sweep,              \* the pixel sweep that is running: its closure, loop
                      \* counters and buffer
  stats,              \* useState<GameStats>
  maxZoomSeen,        \* history: the largest zoom the view has had
  unlockedAchievements, \* useState<string[]>([])
  recentAchievement,  \* useState<Achievement | null>(null)
  hideTimers,         \* the setTimeout(..., 4000) callbacks that wait
  isAnalyzing,        \* useState(false)
  aiAnalysis,         \* useState<AIAnalysis | null>(null)
  requests,           \* the analyzeFractalLocation calls that are awaited
  updates,            \* React's queue of state updates not yet rendered
  effects,            \* the effects of the last commit that have not run
  component,          \* which App is mounted: that of App.tsx or the variant
  awarded             \* history: the achievements points were granted for

vars == <<view, isContinuousZoom, zoomTarget, isDraggingRef, lastMousePosRef,
          dragDistanceRef, sidebarOpen, canvas, continuousZoomRef, intervals,
          pending, isRendering, shown, dailyChallenge, gesture, ops, last, sweep,
          stats, maxZoomSeen, unlockedAchievements, recentAchievement,
          hideTimers, isAnalyzing, aiAnalysis, requests, updates, effects,
          component, awarded>>

\* the state of the achievements and of the AI analysis, with React's queues
game == <<unlockedAchievements, recentAchievement, hideTimers, isAnalyzing,
          aiAnalysis, requests, updates, effects, component, awarded>>

----------------------------------------------------------------------------
(* Bounds of the model *)

\* events (pointer events, button clicks, timer ticks) in one behaviour
MaxOps == 4
\* draw() callbacks that may wait in the timer queue at once
MaxPending == 2
\* width of the window and of the open sidebar, height of the canvas (px)
WindowW == 18
SidebarW == 6
CanvasH == 8

\* largest numerator / denominator of a viewport the pointer and the dive timer
\* still act on
MaxDen == 10000
\* values asked of the iterations slider, below and above its range
SliderRequests == {10, 5000}
\* palettes the palette buttons are used for
PaletteButtons == {"psychedelic"}
\* weekdays the application is started on: 0 .. MaxToday
MaxToday == 0
\* bits of the significand of the escape loop's numbers
Precision == 12

\* The frames the pixel sweep is followed through.  At zoom 1/2 on a canvas
\* 7 px high and an odd number of px wide, with both centre coordinates an
\* odd number of halves, every pixel lies on a plane point with whole
\* coordinates: the orbits of these stay whole, so that the loop can run to
\* a limit of 50 in exact arithmetic.  The limits below the slider's 50 are
\* those at which an orbit leaves the circle on the loop's last check; the
\* counts below the limit are 1, 2 and 3.  The canvases without pixels are
\* those of a layout that leaves the canvas no width or no height.
RenderCenters == {<<-1, -1>>, <<1, 1>>}
RenderMaxIterations == {1, 3, 50}
RenderCanvases ==
  {[width |-> 5, height |-> 7], [width |-> 3, height |-> 7],
   [width |-> 0, height |-> 7], [width |-> 3, height |-> 0]}
\* The frames of which single pixels are followed: the default viewport
\* under the limits PixelCaps and the palettes PixelSchemes, on canvases of
\* the sizes PixelCanvases; PixelSamples are the pixels, in 24ths of the
\* canvas' width and height
PixelCaps == {1, 2, 3, 50, 120}
PixelSchemes == {"classic", "psychedelic"}
PixelCanvases ==
  {[width |-> 800, height |-> 600], [width |-> 600, height |-> 600],
   [width |-> 300, height |-> 600]}
PixelSamples == {<<12, 12>>, <<0, 0>>, <<6, 12>>, <<10, 9>>, <<7, 10>>, <<13, 3>>}
\* Date.now() during a sweep, as milliseconds into the current 10 s
NowValues == {0, 2500}

\* client positions of the pointer events; all on the canvas in both layouts,
\* pairwise at whole-pixel distances (3, 4 and 5); <<12, 4>> is the centre of
\* the canvas while the sidebar is open, <<9, 4>> while it is closed
ClientPts == {<<9, 4>>, <<12, 4>>, <<12, 0>>}

----------------------------------------------------------------------------
(* Numbers *)

Abs(a) == IF a < 0 THEN -a ELSE a

RECURSIVE Gcd(_, _)
Gcd(a, b) == IF b = 0 THEN a ELSE Gcd(b, a % b)

\* the rational n/d in lowest terms, d > 0
Rat(n, d) ==
  LET s == IF d < 0 THEN -1 ELSE 1
      g == Gcd(Abs(n), Abs(d))
  IN  <<(s * n) \div g, (s * d) \div g>>

R(n) == <<n, 1>>
RNeg(a) == <<-a[1], a[2]>>
\* sums over the least common denominator and products with the common
\* factors taken out first, to keep the intermediate integers small
RAdd(a, b) ==
  LET g == Gcd(a[2], b[2])
  IN  Rat(a[1] * (b[2] \div g) + b[1] * (a[2] \div g), (a[2] \div g) * b[2])
RSub(a, b) == RAdd(a, RNeg(b))
RMul(a, b) ==
  LET g1 == Gcd(Abs(a[1]), b[2])
      g2 == Gcd(Abs(b[1]), a[2])
  IN  Rat((a[1] \div g1) * (b[1] \div g2), (a[2] \div g2) * (b[2] \div g1))
\* b # 0
RDiv(a, b) == RMul(a, IF b[1] < 0 THEN <<-b[2], -b[1]>> ELSE <<b[2], b[1]>>)
RLt(a, b) == a[1] * b[2] < b[1] * a[2]
RLe(a, b) == a[1] * b[2] <= b[1] * a[2]
\* Math.min, Math.max
RMin(a, b) == IF RLe(a, b) THEN a ELSE b
RMax(a, b) == IF RLe(a, b) THEN b ELSE a

\* Math.sqrt of a perfect square
Sqrt(k) == CHOOSE r \in 0..k : r * r = k

----------------------------------------------------------------------------
(* Program constants *)

ColorSchemes ==
  {"classic", "fire", "ocean", "purple", "matrix", "sunset", "psychedelic"}

DefaultView ==
  [centerX |-> Rat(-1, 2), centerY |-> R(0), zoom |-> R(1),
   maxIterations |-> 120, colorScheme |-> "classic"]

\* INTERESTING_LOCATIONS
InterestingLocations ==
  { [x |-> Rat(-5, 10),         y |-> R(0),               z |-> R(1)],
    [x |-> Rat(-7463, 10000),   y |-> Rat(1102, 10000),   z |-> R(100)],
    [x |-> Rat(-74364, 100000), y |-> Rat(13182, 100000), z |-> R(2000)],
    [x |-> Rat(-1011, 10000),   y |-> Rat(9563, 10000),   z |-> R(100)],
    [x |-> Rat(285, 1000),      y |-> Rat(1, 100),        z |-> R(500)],
    [x |-> Rat(-7269, 10000),   y |-> Rat(1889, 10000),   z |-> R(5000)] }

\* the landmarks a session of SpecVisit starts at: Seahorse Valley, which
\* shares its zoom with Elephant Valley
VisitedLandmarks ==
  {loc \in InterestingLocations : loc.x = Rat(-7463, 10000)}

\* DAILY_CHALLENGES, by index
DailyChallenges ==
  << [x |-> Rat(-7463, 10000), y |-> Rat(1102, 10000), zoom |-> R(100)],
     [x |-> Rat(-1768, 1000),  y |-> Rat(1, 1000),     zoom |-> R(1000)],
     [x |-> Rat(-101, 1000),   y |-> Rat(956, 1000),   zoom |-> R(150)],
     [x |-> Rat(-7436, 10000), y |-> Rat(1318, 10000), zoom |-> R(5000)],
     [x |-> Rat(285, 1000),    y |-> Rat(1, 100),      zoom |-> R(800)] >>

----------------------------------------------------------------------------
(* Layout: the canvas fills what the sidebar leaves of the window *)

OffsetWidth(sb) == IF sb THEN WindowW - SidebarW ELSE WindowW
OffsetHeight == CanvasH
\* canvas.getBoundingClientRect().left; the canvas is at the top of the window
RectLeft(sb) == IF sb THEN SidebarW ELSE 0
RectTop == 0

----------------------------------------------------------------------------
(* Coordinate transform *)

\* const scale = 3.5 / zoom
Scale(zoom) == RDiv(Rat(7, 2), zoom)
\* const aspectRatio = width / height
AspectRatio(w, h) == Rat(w, h)

\* a wrong transform, to try property C23 on: the aspect ratio is left out
PixelToPlaneXNoAspect(cx, zoom, px, w, h) ==
  RAdd(cx, RDiv(RMul(RSub(R(px), Rat(w, 2)), Scale(zoom)), R(w)))

\* x0 = centerX + ((px - width / 2) * scale * aspectRatio) / width
PixelToPlaneX(cx, zoom, px, w, h) ==
  RAdd(cx, RDiv(RMul(RMul(RSub(R(px), Rat(w, 2)), Scale(zoom)),
                     AspectRatio(w, h)), R(w)))

\* a wrong transform, to try property C25 on: rows are counted from the
\* centre line
PixelToPlaneYFromTop(cy, zoom, py, h) ==
  RAdd(cy, RDiv(RMul(R(py), Scale(zoom)), R(h)))

\* y0 = centerY + ((py - height / 2) * scale) / height
PixelToPlaneY(cy, zoom, py, h) ==
  RAdd(cy, RDiv(RMul(RSub(R(py), Rat(h, 2)), Scale(zoom)), R(h)))

----------------------------------------------------------------------------
(* The state updates of the handlers, as functions of the state they read *)

\* a wrong zoom out, to try property C10 on: a step down instead of a halving
ZoomOutViewStepDown(prev) == [prev EXCEPT !.zoom = RSub(prev.zoom, Rat(1, 2))]

\* zoom out button: prev => ({...prev, zoom: prev.zoom / 2})
ZoomOutView(prev) == [prev EXCEPT !.zoom = RDiv(prev.zoom, R(2))]

\* zoom in button: prev => ({...prev, zoom: prev.zoom * 2})
ZoomInView(prev) == [prev EXCEPT !.zoom = RMul(prev.zoom, R(2))]

\* a wrong reset, to try property C4 on: it keeps the iteration limit and
\* the palette
ResetViewKeeping(prev) ==
  [prev EXCEPT !.centerX = Rat(-1, 2), !.centerY = R(0), !.zoom = R(1)]

\* reset button: setView({centerX: -0.5, centerY: 0, zoom: 1, ...})
ResetView(prev) ==
  [centerX |-> Rat(-1, 2), centerY |-> R(0), zoom |-> R(1),
   maxIterations |-> 120, colorScheme |-> "classic"]

\* a wrong landmark jump, to try property C30 on: it builds the view anew,
\* with the default iteration limit and palette
LandmarkViewDefaults(prev, loc) ==
  [centerX |-> loc.x, centerY |-> loc.y, zoom |-> loc.z,
   maxIterations |-> 120, colorScheme |-> "classic"]

\* landmark button: prev => ({...prev, centerX: loc.x, centerY: loc.y, zoom: loc.z})
LandmarkView(prev, loc) ==
  [prev EXCEPT !.centerX = loc.x, !.centerY = loc.y, !.zoom = loc.z]

\* daily challenge button
ChallengeView(prev, ch) ==
  [prev EXCEPT !.centerX = ch.x, !.centerY = ch.y, !.zoom = ch.zoom]

\* iterations slider
IterationsView(prev, n) == [prev EXCEPT !.maxIterations = n]

\* palette button
SchemeView(prev, s) == [prev EXCEPT !.colorScheme = s]

\* a wrong pan, to try property C5 on: the centre follows the pointer
PanViewFollowing(v, prev, dx, dy, cv) ==
  LET aspectRatio == AspectRatio(cv.width, cv.height)
      scale       == Scale(v.zoom)
      fractalDx   == RDiv(RMul(RMul(R(dx), scale), aspectRatio), R(cv.width))
      fractalDy   == RDiv(RMul(R(dy), scale), R(cv.height))
  IN  [prev EXCEPT !.centerX = RAdd(prev.centerX, fractalDx),
                   !.centerY = RAdd(prev.centerY, fractalDy)]

\* handleMouseMove while dragging: v is the view of the handler's closure,
\* prev the state the updater receives, (dx, dy) the pointer's displacement
PanView(v, prev, dx, dy, cv) ==
  LET aspectRatio == AspectRatio(cv.width, cv.height)
      scale       == Scale(v.zoom)
      fractalDx   == RDiv(RMul(RMul(R(dx), scale), aspectRatio), R(cv.width))
      fractalDy   == RDiv(RMul(R(dy), scale), R(cv.height))
  IN  [prev EXCEPT !.centerX = RSub(prev.centerX, fractalDx),
                   !.centerY = RSub(prev.centerY, fractalDy)]

\* a wrong click-zoom, to try property C1 on: offsets taken from the canvas'
\* corner instead of its centre
ClickZoomViewFromCorner(v, prev, x, y, cv) ==
  LET aspectRatio == AspectRatio(cv.width, cv.height)
      scale       == Scale(v.zoom)
      newX == RAdd(v.centerX,
                   RDiv(RMul(RMul(R(x), scale), aspectRatio), R(cv.width)))
      newY == RAdd(v.centerY, RDiv(RMul(R(y), scale), R(cv.height)))
  IN  [prev EXCEPT !.centerX = newX, !.centerY = newY,
                   !.zoom = RMul(prev.zoom, R(2))]

\* handleCanvasClick without modifier: (x, y) is the pointer on the canvas
ClickZoomView(v, prev, x, y, cv) ==
  LET aspectRatio == AspectRatio(cv.width, cv.height)
      scale       == Scale(v.zoom)
      newX == RAdd(v.centerX,
                   RDiv(RMul(RMul(RSub(R(x), Rat(cv.width, 2)), scale),
                             aspectRatio), R(cv.width)))
      newY == RAdd(v.centerY,
                   RDiv(RMul(RSub(R(y), Rat(cv.height, 2)), scale),
                        R(cv.height)))
  IN  [prev EXCEPT !.centerX = newX, !.centerY = newY,
                   !.zoom = RMul(prev.zoom, R(2))]

\* the plane point the interval callback steers to: t is its closure
\* (view and zoomTarget of the render that armed it), cv the canvas now
TickTargetX(t, cv) ==
  RAdd(t.centerX,
       RDiv(RMul(RMul(RSub(R(t.zoomTarget.x), Rat(cv.width, 2)), Scale(t.zoom)),
                 AspectRatio(cv.width, cv.height)), R(cv.width)))

TickTargetY(t, cv) ==
  RAdd(t.centerY,
       RDiv(RMul(RSub(R(t.zoomTarget.y), Rat(cv.height, 2)), Scale(t.zoom)),
            R(cv.height)))

\* the interval callback's updater
TickView(t, prev, cv) ==
  [prev EXCEPT
     !.centerX = RAdd(prev.centerX,
                      RMul(RSub(TickTargetX(t, cv), prev.centerX), Rat(2, 10))),
     !.centerY = RAdd(prev.centerY,
                      RMul(RSub(TickTargetY(t, cv), prev.centerY), Rat(2, 10))),
     !.zoom    = RMul(prev.zoom, Rat(105, 100))]

----------------------------------------------------------------------------
(* React effects *)

None == [none |-> TRUE]
Cleared == [cleared |-> TRUE]

\* The refs of the drag logic are read only while isDraggingRef.current is
\* true, and handleMouseDown overwrites both before it sets that flag: the
\* values they keep after a pointer-up are never read.  The model holds them
\* at their initial values while no drag is going on.
NoDragPos == [x |-> 0, y |-> 0]
NoDragDistance == 0

\* the inputs of one draw() call: the view of its closure and the canvas size
\* it read
Snapshot(v, w, h) == [view |-> v, width |-> w, height |-> h]

\* draw() on a canvas of w by h pixels, both above 0: setIsRendering(true),
\* and the sweep deferred with setTimeout(.., 0)
Draw(nv, w, h) ==
  /\ pending' = Append(pending, [snap |-> Snapshot(nv, w, h),
                                 req  |-> Snapshot(nv, w, h)])
  /\ isRendering' = TRUE

\* useEffect(..., [draw]): draw changes identity with every new view object.
\* canvas.width = canvas.offsetWidth; canvas.height = canvas.offsetHeight;
\* draw().  The window leaves the canvas at least one pixel each way.
DrawEffect(nv) ==
  LET w == OffsetWidth(sidebarOpen)
      h == OffsetHeight
  IN  /\ canvas' = [width |-> w, height |-> h]
      /\ Draw(nv, w, h)

\* the closure of the interval callback
Closure(v, target) ==
  [centerX |-> v.centerX, centerY |-> v.centerY, zoom |-> v.zoom,
   zoomTarget |-> target]

\* a timer setInterval has armed: id tells the timers apart (the number of
\* the event whose commit armed it), closure is what its callback reads
Interval(id, v, target) == [id |-> id, closure |-> Closure(v, target)]

\* a wrong effect, to try property C11 on: turning the dive off leaves the
\* timer running
ZoomEffectNoClear(rerun, nv, dive, target) ==
  IF rerun /\ dive
  THEN /\ intervals' = (intervals \ {continuousZoomRef})
                         \cup {Interval(ops + 1, nv, target)}
       /\ continuousZoomRef' = Interval(ops + 1, nv, target)
  ELSE UNCHANGED <<intervals, continuousZoomRef>>

\* a wrong effect, to try property C29 on: it has no cleanup, so a re-run
\* while dive mode is on arms a timer next to the running one
ZoomEffectNoCleanup(rerun, nv, dive, target) ==
  IF rerun
  THEN IF dive
       THEN /\ intervals' = intervals \cup {Interval(ops + 1, nv, target)}
            /\ continuousZoomRef' = Interval(ops + 1, nv, target)
       ELSE /\ intervals' = intervals \ {continuousZoomRef}
            /\ continuousZoomRef' =
                 IF continuousZoomRef = None THEN None ELSE Cleared
  ELSE UNCHANGED <<intervals, continuousZoomRef>>

\* useEffect(..., [isContinuousZoom, zoomTarget, view.zoom]): when a
\* dependency changed, the cleanup of the previous run clears the interval
\* the ref holds, then the effect arms a new one if dive mode is on
\* continuousZoomRef.current is null (None), the live interval, or the id of
\* an interval that was cleared (Cleared): ids are not reused, so clearing
\* it again does nothing.
ZoomEffect(rerun, nv, dive, target) ==
  IF rerun
  THEN LET cleared == intervals \ {continuousZoomRef}
       IN  IF dive
           THEN /\ intervals' = cleared \cup {Interval(ops + 1, nv, target)}
                /\ continuousZoomRef' = Interval(ops + 1, nv, target)
           ELSE /\ intervals' = cleared
                /\ continuousZoomRef' =
                     IF continuousZoomRef = None THEN None ELSE Cleared
  ELSE UNCHANGED <<intervals, continuousZoomRef>>

\* a wrong sync, to try property C19 on: maxZoom follows the zoom down
StatsEffectFollowing(nv) ==
  IF nv.zoom # view.zoom
  THEN stats' = [stats EXCEPT !.zoom = nv.zoom, !.maxZoom = nv.zoom]
  ELSE UNCHANGED stats

\* useEffect(..., [view.zoom]): setStats(prev => ({...prev, zoom: view.zoom,
\* maxZoom: Math.max(prev.maxZoom, view.zoom)}))
StatsEffect(nv) ==
  IF nv.zoom # view.zoom
  THEN stats' = [stats EXCEPT !.zoom = nv.zoom,
                             !.maxZoom = RMax(stats.maxZoom, nv.zoom)]
  ELSE UNCHANGED stats

\* the commit after a handler that called setView(nv), and setZoomTarget if
\* targetSet
CommitView(nv, target, targetSet) ==
  /\ view' = nv
  /\ zoomTarget' = target
  /\ ops' = ops + 1
  /\ DrawEffect(nv)
  /\ ZoomEffect(targetSet \/ nv.zoom # view.zoom, nv, isContinuousZoom, target)
  /\ StatsEffect(nv)
  /\ maxZoomSeen' = RMax(maxZoomSeen, nv.zoom)
  /\ UNCHANGED game
  /\ UNCHANGED isContinuousZoom

\* the commit after setIsContinuousZoom(dive)
CommitDive(dive) ==
  /\ isContinuousZoom' = dive
  /\ ZoomEffect(dive # isContinuousZoom, view, dive, zoomTarget)
  /\ ops' = ops + 1
  /\ UNCHANGED <<view, zoomTarget, canvas, pending, isRendering, stats,
                 maxZoomSeen, game>>

\* the model's bounds leave room for one more event, and for one that calls
\* setView
CanHandle == ops < MaxOps
CanSetView == CanHandle /\ Len(pending) < MaxPending

Small(r) == Abs(r[1]) <= MaxDen /\ r[2] <= MaxDen
SmallView(v) == Small(v.centerX) /\ Small(v.centerY) /\ Small(v.zoom)

----------------------------------------------------------------------------
(* Event handlers *)

\* history: the event handled last, for a pointer event with the pointer's
\* place on the canvas and the travel of the drag before it
Event(op) == [op |-> op]
PointerEvent(op, x, y, travel) == [op |-> op, x |-> x, y |-> y, travel |-> travel]

\* history: something other than the drag's own pointer-moves changed the view
Impure(g) == IF g = None THEN None ELSE [g EXCEPT !.pure = FALSE]

\* history: a pointer-down, with the button that was pressed
ButtonEvent(op, button) == [op |-> op, button |-> button]

\* a wrong handler, to try property C31 on: any button starts a drag
HandleMouseDownAnyButton(p, button) ==
  /\ CanHandle
  /\ ops' = ops + 1
  /\ last' = ButtonEvent("down", button)
  /\ isDraggingRef' = TRUE
  /\ lastMousePosRef' = [x |-> p[1], y |-> p[2]]
  /\ dragDistanceRef' = 0
  /\ gesture' = [view |-> view, pure |-> TRUE]
  /\ UNCHANGED <<stats, maxZoomSeen, game, view, isContinuousZoom, zoomTarget, sidebarOpen, canvas,
                 continuousZoomRef, intervals, pending, isRendering, shown,
                 dailyChallenge, sweep>>

\* handleMouseDown
HandleMouseDown(p, button) ==
  /\ CanHandle
  /\ ops' = ops + 1
  /\ last' = ButtonEvent("down", button)
  /\ IF button # 0
     THEN UNCHANGED <<isDraggingRef, lastMousePosRef, dragDistanceRef, gesture>>
     ELSE /\ isDraggingRef' = TRUE
          /\ lastMousePosRef' = [x |-> p[1], y |-> p[2]]
          /\ dragDistanceRef' = 0
          /\ gesture' = [view |-> view, pure |-> TRUE]
  /\ UNCHANGED <<stats, maxZoomSeen, game, view, isContinuousZoom, zoomTarget, sidebarOpen, canvas,
                 continuousZoomRef, intervals, pending, isRendering, shown,
                 dailyChallenge, sweep>>

\* handleMouseMove; a move that neither drags nor steers a dive does nothing
HandleMouseMove(p) ==
  LET currentX == p[1] - RectLeft(sidebarOpen)
      currentY == p[2] - RectTop
      target   == IF isContinuousZoom THEN [x |-> currentX, y |-> currentY]
                  ELSE zoomTarget
      dx == p[1] - lastMousePosRef.x
      dy == p[2] - lastMousePosRef.y
  IN  /\ isDraggingRef \/ isContinuousZoom
      /\ IF isDraggingRef
         THEN /\ CanSetView /\ SmallView(view)
              /\ dragDistanceRef' = dragDistanceRef + Sqrt(dx * dx + dy * dy)
              /\ lastMousePosRef' = [x |-> p[1], y |-> p[2]]
              /\ CommitView(PanView(view, view, dx, dy, canvas), target,
                            isContinuousZoom)
              /\ last' = PointerEvent("pan", currentX, currentY, dragDistanceRef)
         ELSE /\ CanHandle
              /\ ops' = ops + 1
              /\ zoomTarget' = target
              /\ ZoomEffect(TRUE, view, isContinuousZoom, target)
              /\ last' = PointerEvent("move", currentX, currentY, 0)
              /\ UNCHANGED <<stats, maxZoomSeen, game, view, isContinuousZoom, canvas, pending,
                             isRendering, dragDistanceRef, lastMousePosRef>>
      /\ UNCHANGED <<isDraggingRef, sidebarOpen, shown, dailyChallenge, sweep, gesture>>

\* a wrong threshold, to try property C3 on
ClickThresholdWide == 5 + 1

\* if (dragDistanceRef.current < 5)
ClickThreshold == 5

\* handleMouseUp, which is also the canvas' onMouseLeave handler; it calls
\* handleCanvasClick when the pointer travelled less than 5 px
HandleMouseUp(p, modifier) ==
  LET x == p[1] - RectLeft(sidebarOpen)
      y == p[2] - RectTop
  IN  /\ isDraggingRef
      /\ CanHandle
      /\ isDraggingRef' = FALSE
      /\ lastMousePosRef' = NoDragPos
      /\ dragDistanceRef' = NoDragDistance
      /\ gesture' = None
      /\ IF dragDistanceRef < ClickThreshold
         THEN IF modifier
              THEN /\ CommitDive(~isContinuousZoom)
                   /\ last' = PointerEvent("modifier-click", x, y, dragDistanceRef)
              ELSE /\ CanSetView /\ SmallView(view)
                   /\ CommitView(ClickZoomView(view, view, x, y, canvas),
                                 zoomTarget, FALSE)
                   /\ last' = PointerEvent("click", x, y, dragDistanceRef)
         ELSE /\ ops' = ops + 1
              /\ last' = PointerEvent("up", x, y, dragDistanceRef)
              /\ UNCHANGED <<stats, maxZoomSeen, game, view, isContinuousZoom, zoomTarget, canvas,
                             continuousZoomRef, intervals, pending,
                             isRendering>>
      /\ UNCHANGED <<sidebarOpen, shown, dailyChallenge, sweep>>

\* <input type="range" min="50" max="1000" step="50">
RangeMin == 50
RangeMax == 1000
RangeStep == 50

\* a wrong slider, to try property C20 on: it passes on what it is asked
RangeValueUnchecked(n) == n

\* the value the range input takes and reports in e.target.value when it is
\* asked for n: n brought into min..max and onto the nearest step from min.
\* The value is the decimal string of a whole number, which parseInt reads
\* back as that number.
RangeValue(n) ==
  LET c == IF n < RangeMin THEN RangeMin
           ELSE IF n > RangeMax THEN RangeMax ELSE n
  IN  RangeMin + ((2 * (c - RangeMin) + RangeStep) \div (2 * RangeStep))
                   * RangeStep

\* the buttons below the canvas and in the sidebar that call setView
Button(op, nv) ==
  /\ CanSetView
  /\ CommitView(nv, zoomTarget, FALSE)
  /\ last' = Event(op)
  /\ gesture' = Impure(gesture)
  /\ UNCHANGED <<isDraggingRef, lastMousePosRef, dragDistanceRef, sidebarOpen,
                 shown, dailyChallenge, sweep>>

ZoomOutButton == Button("zoomOut", ZoomOutView(view))
ZoomInButton == Button("zoomIn", ZoomInView(view))
ResetButton == Button("reset", ResetView(view))
LandmarkButton ==
  \E loc \in InterestingLocations : Button("landmark", LandmarkView(view, loc))
ChallengeButton ==
  /\ dailyChallenge # None
  /\ Button("challenge", ChallengeView(view, dailyChallenge))
IterationsSlider ==
  \E n \in SliderRequests :
    Button("iterations", IterationsView(view, RangeValue(n)))
PaletteButton ==
  \E s \in PaletteButtons : Button("palette", SchemeView(view, s))

\* the continuous zoom toggle: setIsContinuousZoom(!isContinuousZoom)
DiveButton ==
  /\ CanHandle
  /\ CommitDive(~isContinuousZoom)
  /\ last' = Event("dive")
  /\ UNCHANGED <<isDraggingRef, lastMousePosRef, dragDistanceRef, sidebarOpen,
                 shown, dailyChallenge, sweep, gesture>>

\* the sidebar toggle: the canvas' layout box changes, its attributes do not
SidebarButton ==
  /\ CanHandle
  /\ sidebarOpen' = ~sidebarOpen
  /\ ops' = ops + 1
  /\ last' = Event("sidebar")
  /\ UNCHANGED <<stats, maxZoomSeen, game, view, isContinuousZoom, zoomTarget, isDraggingRef,
                 lastMousePosRef, dragDistanceRef, canvas, continuousZoomRef,
                 intervals, pending, isRendering, shown, dailyChallenge, sweep,
                 gesture>>

\* one firing of a live interval
Tick ==
  \E t \in intervals :
    /\ CanSetView /\ SmallView(view)
    /\ Small(t.closure.centerX) /\ Small(t.closure.centerY)
    /\ CommitView(TickView(t.closure, view, canvas), zoomTarget, FALSE)
    /\ last' = Event("tick")
    /\ gesture' = Impure(gesture)
    /\ UNCHANGED <<isDraggingRef, lastMousePosRef, dragDistanceRef,
                   sidebarOpen, shown, dailyChallenge, sweep>>

----------------------------------------------------------------------------
(* Escape loop *)

\* The loop squares its values at every turn, so its arithmetic is modelled
\* with the rounding of floating point: the result of each * - + is the
\* nearest number with a significand of Precision bits (a double has 53),
\* a tie going to the even significand.  The exponent is not bounded.
RoundHalfEven(a) ==
  LET f    == a[1] \div a[2]
      frac == RAdd(a, R(-f))
  IN  IF 2 * frac[1] < frac[2] THEN f
      ELSE IF 2 * frac[1] > frac[2] THEN f + 1
      ELSE IF f % 2 = 0 THEN f ELSE f + 1

\* the number of binary digits of k >= 0
RECURSIVE BitLen(_)
BitLen(k) == IF k = 0 THEN 0 ELSE 1 + BitLen(k \div 2)

\* a * 2^s, in steps that keep the integers small
RECURSIVE Pow2Mul(_, _)
Pow2Mul(a, s) ==
  IF s > 15 THEN Pow2Mul(RMul(a, <<2 ^ 15, 1>>), s - 15)
  ELSE IF s < -15 THEN Pow2Mul(RMul(a, <<1, 2 ^ 15>>), s + 15)
  ELSE IF s >= 0 THEN RMul(a, <<2 ^ s, 1>>)
  ELSE RMul(a, <<1, 2 ^ (-s)>>)

\* |q| is brought into [2^(Precision-1), 2^Precision) by a power of two,
\* rounded to a whole number there and brought back; a whole number below
\* 2^Precision is its own nearest number
Fl(q) ==
  IF q[2] = 1 /\ Abs(q[1]) < 2 ^ Precision THEN q
  ELSE LET n  == Abs(q[1])
           s0 == Precision - 1 - (BitLen(n) - BitLen(q[2]))
           a0 == Pow2Mul(<<n, q[2]>>, s0)
           up == a0[1] \div a0[2] < 2 ^ (Precision - 1)
           m  == RoundHalfEven(IF up THEN RMul(a0, <<2, 1>>) ELSE a0)
           r  == Pow2Mul(<<m, 1>>, -(IF up THEN s0 + 1 ELSE s0))
       IN  IF q[1] < 0 THEN RNeg(r) ELSE r

\* x * x + y * y
Norm2(x, y) == Fl(RAdd(Fl(RMul(x, x)), Fl(RMul(y, y))))

\* a wrong step, to try property C21 on: the point is subtracted
NextXMinus(x, y, x0) ==
  Fl(RSub(Fl(RSub(Fl(RMul(x, x)), Fl(RMul(y, y)))), x0))

\* x * x - y * y + x0 and 2 * x * y + y0
NextX(x, y, x0) == Fl(RAdd(Fl(RSub(Fl(RMul(x, x)), Fl(RMul(y, y)))), x0))
NextY(x, y, y0) == Fl(RAdd(Fl(RMul(Fl(RMul(R(2), x)), y)), y0))

\* one turn of
\*   while (x * x + y * y <= 4 && iteration < maxIterations) {
\*     xtemp = x * x - y * y + x0; y = 2 * x * y + y0; x = xtemp; iteration++ }
\* from the values s = <<x, y, iteration>> its variables have at a check:
\* the body if the check passes, and no change once the loop has ended
LoopTurn(s, x0, y0, limit) ==
  IF RLe(Norm2(s[1], s[2]), R(4)) /\ s[3] < limit
  THEN <<NextX(s[1], s[2], x0), NextY(s[1], s[2], y0), s[3] + 1>>
  ELSE s

\* n turns, taken as two runs of half as many, the second only if the first
\* took all of its turns: the evaluation nests a few levels deep where a
\* turn-by-turn recursion would nest n levels
RECURSIVE LoopTurns(_, _, _, _, _)
LoopTurns(s, n, x0, y0, limit) ==
  IF n <= 0 THEN s
  ELSE IF n = 1 THEN LoopTurn(s, x0, y0, limit)
  ELSE LET half == LoopTurns(s, n \div 2, x0, y0, limit)
       IN  IF half[3] < s[3] + n \div 2 THEN half
           ELSE LoopTurns(half, n - n \div 2, x0, y0, limit)

\* a wrong loop, to try property C6 on: one iteration more than the limit
EscapeLoopInclusive(x, y, iteration, x0, y0, maxIterations) ==
  LoopTurns(<<x, y, iteration>>, maxIterations + 1 - iteration, x0, y0,
            maxIterations + 1)[3]

\* the count the loop ends with, from the values x, y and iteration have at
\* one of its checks: it ends within maxIterations - iteration turns
EscapeLoop(x, y, iteration, x0, y0, maxIterations) ==
  LoopTurns(<<x, y, iteration>>, maxIterations - iteration, x0, y0,
            maxIterations)[3]

\* a wrong start, to try property C7 on: the orbit starts at the point itself
IterateFromPoint(x0, y0, maxIterations) ==
  EscapeLoop(x0, y0, 0, x0, y0, maxIterations)

\* let x = 0; let y = 0; let iteration = 0; and the loop
Iterate(x0, y0, maxIterations) ==
  EscapeLoop(R(0), R(0), 0, x0, y0, maxIterations)

----------------------------------------------------------------------------
(* Colours *)

\* Math.floor, Math.round (halves go up) and the % of two numbers >= 0
Floor(a) == a[1] \div a[2]
MathRound(a) == Floor(RAdd(a, Rat(1, 2)))
RMod(a, m) == RSub(a, RMul(m, R(Floor(RDiv(a, m)))))

\* COLOR_SCHEMES[scheme].baseHue
BaseHue(scheme) ==
  CASE scheme = "classic"     -> 200
    [] scheme = "fire"        -> 0
    [] scheme = "ocean"       -> 190
    [] scheme = "purple"      -> 280
    [] scheme = "matrix"      -> 120
    [] scheme = "sunset"      -> 330
    [] scheme = "psychedelic" -> 60

\* hue2rgb of hslToRgb
Hue2Rgb(p, q, t0) ==
  LET t1 == IF RLt(t0, R(0)) THEN RAdd(t0, R(1)) ELSE t0
      t  == IF RLt(R(1), t1) THEN RSub(t1, R(1)) ELSE t1
  IN  IF RLt(t, Rat(1, 6))
      THEN RAdd(p, RMul(RMul(RSub(q, p), R(6)), t))
      ELSE IF RLt(t, Rat(1, 2))
      THEN q
      ELSE IF RLt(t, Rat(2, 3))
      THEN RAdd(p, RMul(RMul(RSub(q, p), RSub(Rat(2, 3), t)), R(6)))
      ELSE p

HslToRgb(h, s, l) ==
  LET q == IF RLt(l, Rat(1, 2))
           THEN RMul(l, RAdd(R(1), s))
           ELSE RSub(RAdd(l, s), RMul(l, s))
      p == RSub(RMul(R(2), l), q)
      r == IF s = R(0) THEN l ELSE Hue2Rgb(p, q, RAdd(h, Rat(1, 3)))
      g == IF s = R(0) THEN l ELSE Hue2Rgb(p, q, h)
      b == IF s = R(0) THEN l ELSE Hue2Rgb(p, q, RSub(h, Rat(1, 3)))
  IN  <<R(MathRound(RMul(r, R(255)))), R(MathRound(RMul(g, R(255)))),
        R(MathRound(RMul(b, R(255))))>>

\* a wrong getColor, to try property C16 on: only a count above the limit
\* is taken for a point of the set
GetColorSentinelAbove(iteration, maxIter, scheme, now) ==
  IF iteration > maxIter
  THEN <<R(0), R(0), R(0)>>
  ELSE LET t   == Rat(iteration, maxIter)
           hue == RMod(RAdd(R(BaseHue(scheme)), RMul(t, R(360))), R(360))
       IN  CASE scheme = "matrix" ->
                  <<R(0), R(MathRound(RMul(RMul(R(255), t), R(2)))), R(0)>>
             [] scheme = "fire" ->
                  <<RMin(R(255), RMul(t, R(510))),
                    RMin(R(255), RMax(R(0), RSub(RMul(t, R(510)), R(255)))),
                    R(0)>>
             [] scheme = "psychedelic" ->
                  HslToRgb(RMod(RAdd(RMul(t, R(5)), Rat(now, 10000)), R(1)),
                           Rat(8, 10), Rat(5, 10))
             [] OTHER ->
                  HslToRgb(RDiv(hue, R(360)), Rat(7, 10),
                           RAdd(Rat(2, 10), RMul(t, Rat(6, 10))))

\* a wrong getColor, to try property C24 on: the clock turns the hue of
\* every hsl palette
GetColorClocked(iteration, maxIter, scheme, now) ==
  IF iteration = maxIter
  THEN <<R(0), R(0), R(0)>>
  ELSE LET t   == Rat(iteration, maxIter)
           hue == RMod(RAdd(R(BaseHue(scheme)), RMul(t, R(360))), R(360))
       IN  CASE scheme = "matrix" ->
                  <<R(0), R(MathRound(RMul(RMul(R(255), t), R(2)))), R(0)>>
             [] scheme = "fire" ->
                  <<RMin(R(255), RMul(t, R(510))),
                    RMin(R(255), RMax(R(0), RSub(RMul(t, R(510)), R(255)))),
                    R(0)>>
             [] scheme = "psychedelic" ->
                  HslToRgb(RMod(RAdd(RMul(t, R(5)), Rat(now, 10000)), R(1)),
                           Rat(8, 10), Rat(5, 10))
             [] OTHER ->
                  HslToRgb(RMod(RAdd(RDiv(hue, R(360)), Rat(now, 10000)), R(1)),
                           Rat(7, 10), RAdd(Rat(2, 10), RMul(t, Rat(6, 10))))

\* getColor; now is what Date.now() returns, which only the psychedelic
\* palette reads
GetColor(iteration, maxIter, scheme, now) ==
  IF iteration = maxIter
  THEN <<R(0), R(0), R(0)>>
  ELSE LET t   == Rat(iteration, maxIter)
           hue == RMod(RAdd(R(BaseHue(scheme)), RMul(t, R(360))), R(360))
       IN  CASE scheme = "matrix" ->
                  <<R(0), R(MathRound(RMul(RMul(R(255), t), R(2)))), R(0)>>
             [] scheme = "fire" ->
                  <<RMin(R(255), RMul(t, R(510))),
                    RMin(R(255), RMax(R(0), RSub(RMul(t, R(510)), R(255)))),
                    R(0)>>
             [] scheme = "psychedelic" ->
                  HslToRgb(RMod(RAdd(RMul(t, R(5)), Rat(now, 10000)), R(1)),
                           Rat(8, 10), Rat(5, 10))
             [] OTHER ->
                  HslToRgb(RDiv(hue, R(360)), Rat(7, 10),
                           RAdd(Rat(2, 10), RMul(t, Rat(6, 10))))

\* what an element of a Uint8ClampedArray holds after a number >= 0 is
\* assigned to it: the nearest integer, a half going to the even one, at
\* most 255
ToUint8Clamp(a) ==
  LET f    == Floor(a)
      frac == RSub(a, R(f))
      n    == IF RLt(frac, Rat(1, 2)) THEN f
              ELSE IF RLt(Rat(1, 2), frac) THEN f + 1
              ELSE IF f % 2 = 0 THEN f ELSE f + 1
  IN  IF n > 255 THEN 255 ELSE n

----------------------------------------------------------------------------
(* Frame renderer, as the controller sees it *)

\* a wrong sweep, to try property C8 on: it reads the component's state and
\* the canvas when it runs
SweepImageLive(job, liveView, liveCanvas) ==
  Snapshot(liveView, liveCanvas.width, liveCanvas.height)

\* what a sweep puts into its buffer is decided by the values it reads: the
\* viewport and the canvas size that draw() captured
SweepImage(job, liveView, liveCanvas) == job.snap

\* a wrong order, to try property C26 on: the newest waiting callback runs
\* first
SweepNewestFirst ==
  /\ pending # <<>>
  /\ shown' = [image |-> SweepImage(pending[Len(pending)], view, canvas),
               req   |-> pending[Len(pending)].req]
  /\ pending' = SubSeq(pending, 1, Len(pending) - 1)
  /\ isRendering' = FALSE
  /\ last' = Event("sweep")
  /\ UNCHANGED <<stats, maxZoomSeen, game, view, isContinuousZoom, zoomTarget, isDraggingRef,
                 lastMousePosRef, dragDistanceRef, sidebarOpen, canvas,
                 continuousZoomRef, intervals, dailyChallenge, sweep, gesture, ops>>

\* the setTimeout callback of the oldest waiting draw(): the pixel sweep,
\* ctx.putImageData(imageData, 0, 0) and setIsRendering(false)
Sweep ==
  /\ pending # <<>>
  /\ shown' = [image |-> SweepImage(Head(pending), view, canvas),
               req   |-> Head(pending).req]
  /\ pending' = Tail(pending)
  /\ isRendering' = FALSE
  /\ last' = Event("sweep")
  /\ UNCHANGED <<stats, maxZoomSeen, game, view, isContinuousZoom, zoomTarget, isDraggingRef,
                 lastMousePosRef, dragDistanceRef, sidebarOpen, canvas,
                 continuousZoomRef, intervals, dailyChallenge, sweep, gesture, ops>>

----------------------------------------------------------------------------
(* Frame renderer, pixel by pixel *)

\* ctx.createImageData(width, height).data: four bytes per pixel, all 0
ImageData(width, height) == [i \in 0..(width * height * 4 - 1) |-> 0]

\* a wrong offset, to try property C9 on: rows and columns confused
PixelIndexByColumn(px, py, width) == (px * width + py) * 4

\* const pixelIndex = (py * width + px) * 4
PixelIndex(px, py, width) == (py * width + px) * 4

\* data[i] = v: an index outside the array is ignored
Assign(data, i, v) ==
  IF i \in DOMAIN data THEN [data EXCEPT ![i] = ToUint8Clamp(v)] ELSE data

\* history: the number of assignments to each element of the array, and
\* the indices outside it that were assigned to
Counted(writes, is) ==
  [i \in DOMAIN writes |-> IF i \in is THEN writes[i] + 1 ELSE writes[i]]

\* the loop counters at the next test of the inner loop's body: the two for
\* loops run px over 0..width-1 and, for each, py over 0..height-1; the
\* sweep is through when px = width
FirstPixel(width, height) ==
  IF width > 0 /\ height > 0 THEN <<0, 0>> ELSE <<width, 0>>
NextPixel(px, py, width, height) ==
  IF py + 1 < height THEN <<px, py + 1>> ELSE <<px + 1, 0>>

\* the setTimeout callback of the oldest waiting draw() starts
SweepStart ==
  /\ sweep = None
  /\ pending # <<>>
  /\ LET job   == Head(pending)
         first == FirstPixel(job.snap.width, job.snap.height)
     IN  sweep' = [job    |-> job,
                   px     |-> first[1],
                   py     |-> first[2],
                   data   |-> ImageData(job.snap.width, job.snap.height),
                   writes |-> ImageData(job.snap.width, job.snap.height),
                   stray  |-> {},
                   probe  |-> None,
                   now    |-> 0,
                   put    |-> FALSE]
  /\ pending' = Tail(pending)
  /\ UNCHANGED <<stats, maxZoomSeen, game, view, isContinuousZoom, zoomTarget, isDraggingRef,
                 lastMousePosRef, dragDistanceRef, sidebarOpen, canvas,
                 continuousZoomRef, intervals, isRendering, shown,
                 dailyChallenge, gesture, ops, last>>

\* one run of the inner loop's body; now is the clock, which does not go
\* back
SweepPixel ==
  /\ sweep # None
  /\ sweep.px < sweep.job.snap.width
  /\ LET v      == sweep.job.snap.view
         width  == sweep.job.snap.width
         height == sweep.job.snap.height
         x0 == PixelToPlaneX(v.centerX, v.zoom, sweep.px, width, height)
         y0 == PixelToPlaneY(v.centerY, v.zoom, sweep.py, height)
         pixelIndex == PixelIndex(sweep.px, sweep.py, width)
         is   == pixelIndex..(pixelIndex + 3)
         next == NextPixel(sweep.px, sweep.py, width, height)
     IN  \E now \in NowValues, iteration \in {Iterate(x0, y0, v.maxIterations)} :
           \E rgb \in {GetColor(iteration, v.maxIterations, v.colorScheme, now)} :
             LET d1 == Assign(sweep.data, pixelIndex, rgb[1])
                 d2 == Assign(d1, pixelIndex + 1, rgb[2])
                 d3 == Assign(d2, pixelIndex + 2, rgb[3])
                 d4 == Assign(d3, pixelIndex + 3, R(255))
             IN  /\ now >= sweep.now
                 /\ sweep' = [sweep EXCEPT
                                !.px     = next[1],
                                !.py     = next[2],
                                !.data   = d4,
                                !.writes = Counted(sweep.writes, is),
                                !.stray  = sweep.stray \cup (is \ DOMAIN sweep.data),
                                !.probe  = [x0 |-> x0, y0 |-> y0, px |-> sweep.px,
                                            py |-> sweep.py,
                                            maxIterations |-> v.maxIterations,
                                            iteration |-> iteration,
                                            colorScheme |-> v.colorScheme,
                                            rgb |-> rgb],
                                !.now    = now]
  /\ UNCHANGED <<stats, maxZoomSeen, game, view, isContinuousZoom, zoomTarget, isDraggingRef,
                 lastMousePosRef, dragDistanceRef, sidebarOpen, canvas,
                 continuousZoomRef, intervals, pending, isRendering, shown,
                 dailyChallenge, gesture, ops, last>>

\* the loops are through: ctx.putImageData(imageData, 0, 0) and
\* setIsRendering(false)
SweepEnd ==
  /\ sweep # None
  /\ sweep.px = sweep.job.snap.width
  /\ ~sweep.put
  /\ sweep' = [sweep EXCEPT !.put = TRUE]
  /\ shown' = [image |-> SweepImage(sweep.job, view, canvas),
               req   |-> sweep.job.req]
  /\ isRendering' = FALSE
  /\ last' = Event("sweep")
  /\ UNCHANGED <<stats, maxZoomSeen, game, view, isContinuousZoom, zoomTarget, isDraggingRef,
                 lastMousePosRef, dragDistanceRef, sidebarOpen, canvas,
                 continuousZoomRef, intervals, pending, dailyChallenge,
                 gesture, ops>>

\* draw(), called by the effect of the commit, on the canvas as it is:
\* setIsRendering(true) comes first; ctx.createImageData(width, height)
\* throws an IndexSizeError when width or height is 0, and draw() ends
\* there, with no sweep deferred; otherwise the sweep is deferred
RenderRequest ==
  /\ last.op = "commit"
  /\ IF canvas.width = 0 \/ canvas.height = 0
     THEN /\ isRendering' = TRUE
          /\ last' = Event("IndexSizeError")
          /\ UNCHANGED pending
     ELSE /\ Draw(view, canvas.width, canvas.height)
          /\ last' = Event("draw")
  /\ UNCHANGED <<stats, maxZoomSeen, game, view, isContinuousZoom, zoomTarget,
                 isDraggingRef, lastMousePosRef, dragDistanceRef, sidebarOpen,
                 canvas, continuousZoomRef, intervals, shown, dailyChallenge,
                 sweep, gesture, ops>>

\* One run of the body of the inner loop, for the pixel the sweep of a
\* frame has come to: the frames of SpecSample are too large to be followed
\* through all their pixels.  x0 and y0 are the doubles nearest to what the
\* transform gives.
SweepPixelBody ==
  /\ sweep # None
  /\ sweep.probe = None
  /\ LET v      == sweep.job.snap.view
         width  == sweep.job.snap.width
         height == sweep.job.snap.height
         x0 == Fl(PixelToPlaneX(v.centerX, v.zoom, sweep.px, width, height))
         y0 == Fl(PixelToPlaneY(v.centerY, v.zoom, sweep.py, height))
         iteration  == Iterate(x0, y0, v.maxIterations)
         pixelIndex == PixelIndex(sweep.px, sweep.py, width)
         next == NextPixel(sweep.px, sweep.py, width, height)
     IN  \E now \in NowValues, count \in {iteration} :
           LET rgb == GetColor(count, v.maxIterations, v.colorScheme, now)
           IN  sweep' = [sweep EXCEPT
                           !.px    = next[1],
                           !.py    = next[2],
                           !.probe = [x0 |-> x0, y0 |-> y0, px |-> sweep.px,
                                      py |-> sweep.py,
                                      maxIterations |-> v.maxIterations,
                                      iteration |-> count,
                                      colorScheme |-> v.colorScheme,
                                      rgb |-> rgb,
                                      pixelIndex |-> pixelIndex,
                                      bytes |-> <<ToUint8Clamp(rgb[1]),
                                                  ToUint8Clamp(rgb[2]),
                                                  ToUint8Clamp(rgb[3]),
                                                  ToUint8Clamp(R(255))>>],
                           !.now   = now]
  /\ UNCHANGED <<stats, maxZoomSeen, game, view, isContinuousZoom, zoomTarget,
                 isDraggingRef, lastMousePosRef, dragDistanceRef, sidebarOpen,
                 canvas, continuousZoomRef, intervals, pending, isRendering,
                 shown, dailyChallenge, gesture, ops, last>>

----------------------------------------------------------------------------
(* The application *)

\* useState<GameStats>({zoom: 1, maxZoom: 1, patternsFound: 0,
\* timeInSeconds: 0, points: 0}) with the zoom and maxZoom it has come to
StatsOf(zoom, maxZoom) ==
  [zoom |-> zoom, maxZoom |-> maxZoom, patternsFound |-> 0, timeInSeconds |-> 0,
   points |-> 0]

\* the achievements and the AI analysis of component c as they are mounted;
\* they are followed in SpecGame, the other specifications leave them here
GameAtMount(c) ==
  /\ unlockedAchievements = <<>>
  /\ recentAchievement = None
  /\ hideTimers = 0
  /\ isAnalyzing = FALSE
  /\ aiAnalysis = None
  /\ requests = {}
  /\ updates = <<>>
  /\ effects = <<>>
  /\ component = c
  /\ awarded = <<>>

\* the state after the mount: the daily challenge is that of the weekday,
\* the first draw() has been called and its sweep waits
Init ==
  /\ view = DefaultView
  /\ isContinuousZoom = FALSE
  /\ zoomTarget = [x |-> 0, y |-> 0]
  /\ isDraggingRef = FALSE
  /\ lastMousePosRef = NoDragPos
  /\ dragDistanceRef = NoDragDistance
  /\ sidebarOpen = TRUE
  /\ canvas = [width |-> OffsetWidth(TRUE), height |-> OffsetHeight]
  /\ continuousZoomRef = None
  /\ intervals = {}
  /\ pending = <<[snap |-> Snapshot(DefaultView, OffsetWidth(TRUE), OffsetHeight),
                  req  |-> Snapshot(DefaultView, OffsetWidth(TRUE), OffsetHeight)]>>
  /\ isRendering = TRUE
  /\ shown = None
  /\ \E today \in 0..MaxToday :
       dailyChallenge = DailyChallenges[(today % Len(DailyChallenges)) + 1]
  /\ gesture = None
  /\ ops = 0
  /\ last = Event("mount")
  /\ sweep = None
  /\ stats = StatsOf(view.zoom, RMax(R(1), view.zoom))
  /\ maxZoomSeen = view.zoom
  /\ GameAtMount("App")

Next ==
  \/ \E p \in ClientPts, button \in {0, 2} : HandleMouseDown(p, button)
  \/ \E p \in ClientPts : HandleMouseMove(p)
  \/ \E p \in ClientPts, modifier \in BOOLEAN : HandleMouseUp(p, modifier)
  \/ ZoomOutButton
  \/ ZoomInButton
  \/ ResetButton
  \/ LandmarkButton
  \/ ChallengeButton
  \/ IterationsSlider
  \/ PaletteButton
  \/ DiveButton
  \/ SidebarButton
  \/ Tick
  \/ Sweep

Spec == Init /\ [][Next]_vars

\* The application later in a session: the user has gone to one of the
\* landmarks of VisitedLandmarks with its button, and the frames of the
\* mount and of the jump have been swept.  The events are those of Spec.
InitVisit ==
  /\ \E loc \in VisitedLandmarks :
       /\ view = LandmarkView(DefaultView, loc)
       /\ maxZoomSeen = RMax(DefaultView.zoom, loc.z)
       /\ GameAtMount("App")
  /\ isContinuousZoom = FALSE
  /\ zoomTarget = [x |-> 0, y |-> 0]
  /\ isDraggingRef = FALSE
  /\ lastMousePosRef = NoDragPos
  /\ dragDistanceRef = NoDragDistance
  /\ sidebarOpen = TRUE
  /\ canvas = [width |-> OffsetWidth(TRUE), height |-> OffsetHeight]
  /\ continuousZoomRef = None
  /\ intervals = {}
  /\ pending = <<>>
  /\ isRendering = FALSE
  /\ shown = [image |-> Snapshot(view, OffsetWidth(TRUE), OffsetHeight),
              req   |-> Snapshot(view, OffsetWidth(TRUE), OffsetHeight)]
  /\ \E today \in 0..MaxToday :
       dailyChallenge = DailyChallenges[(today % Len(DailyChallenges)) + 1]
  /\ gesture = None
  /\ ops = 0
  /\ last = Event("sweep")
  /\ sweep = None
  /\ stats = StatsOf(view.zoom, maxZoomSeen)

SpecVisit == InitVisit /\ [][Next]_vars

\* One frame, followed pixel by pixel: the application has committed one of
\* the views of RenderViews on a canvas of one of the sizes RenderCanvases,
\* the sweeps of earlier views are through, and the effect that calls draw()
\* is about to run
RenderViews ==
  { [centerX |-> Rat(c[1], 2), centerY |-> Rat(c[2], 2), zoom |-> Rat(1, 2),
     maxIterations |-> n, colorScheme |-> scheme] :
      c \in RenderCenters, n \in RenderMaxIterations, scheme \in ColorSchemes }

InitRender ==
  /\ \E v \in RenderViews, cv \in RenderCanvases :
       /\ view = v
       /\ canvas = cv
  /\ pending = <<>>
  /\ isContinuousZoom = FALSE
  /\ zoomTarget = [x |-> 0, y |-> 0]
  /\ isDraggingRef = FALSE
  /\ lastMousePosRef = NoDragPos
  /\ dragDistanceRef = NoDragDistance
  /\ sidebarOpen = TRUE
  /\ continuousZoomRef = None
  /\ intervals = {}
  /\ isRendering = FALSE
  /\ shown = None
  /\ dailyChallenge = DailyChallenges[1]
  /\ gesture = None
  /\ ops = 0
  /\ last = Event("commit")
  /\ sweep = None
  /\ stats = StatsOf(view.zoom, RMax(R(1), view.zoom))
  /\ maxZoomSeen = view.zoom
  /\ GameAtMount("App")

NextRender ==
  \/ RenderRequest
  \/ SweepStart
  \/ SweepPixel
  \/ SweepEnd

SpecRender == InitRender /\ [][NextRender]_vars

\* One pixel of one frame: the application has committed one of the views
\* of SampleViews on a canvas of one of the sizes PixelCanvases, draw() has
\* deferred the sweep, and the sweep runs and has come to one of the pixels
\* PixelSamples
SampleViews ==
  { [DefaultView EXCEPT !.maxIterations = n, !.colorScheme = scheme] :
      n \in PixelCaps, scheme \in PixelSchemes }

InitSample ==
  /\ \E v \in SampleViews, cv \in PixelCanvases, q \in PixelSamples :
       /\ view = v
       /\ canvas = cv
       /\ sweep = [job   |-> [snap |-> Snapshot(v, cv.width, cv.height),
                              req  |-> Snapshot(v, cv.width, cv.height)],
                   px    |-> (q[1] * cv.width) \div 24,
                   py    |-> (q[2] * cv.height) \div 24,
                   probe |-> None,
                   now   |-> 0,
                   put   |-> FALSE]
  /\ pending = <<>>
  /\ isContinuousZoom = FALSE
  /\ zoomTarget = [x |-> 0, y |-> 0]
  /\ isDraggingRef = FALSE
  /\ lastMousePosRef = NoDragPos
  /\ dragDistanceRef = NoDragDistance
  /\ sidebarOpen = TRUE
  /\ continuousZoomRef = None
  /\ intervals = {}
  /\ isRendering = TRUE
  /\ shown = None
  /\ dailyChallenge = DailyChallenges[1]
  /\ gesture = None
  /\ ops = 0
  /\ last = Event("draw")
  /\ stats = StatsOf(view.zoom, RMax(R(1), view.zoom))
  /\ maxZoomSeen = view.zoom
  /\ GameAtMount("App")

NextSample == SweepPixelBody

SpecSample == InitSample /\ [][NextSample]_vars

----------------------------------------------------------------------------
(* The single-file variant: the App component of src/utils/fractalUtils.ts *)

\* The variant has the state of the application but for zoomTarget,
\* dragDistanceRef, dailyChallenge and the iteration slider; those variables
\* keep their initial values.  Its draw(), its draw effect and its stats
\* effect are the application's, line for line.  Its interval handle is the
\* const timer of the effect's closure, which only the cleanup of that run
\* can read: continuousZoomRef stands for it here.  handleAnalyze changes
\* none of the state modelled.

\* a timer of the variant: its callback reads nothing but the state the
\* updater receives
VariantInterval(id) == [id |-> id]

\* zoom out button: v => ({...v, zoom: v.zoom * 0.5})
VariantZoomOutView(v) == [v EXCEPT !.zoom = RMul(v.zoom, Rat(5, 10))]

\* reset button: setView({...view, centerX: -0.5, centerY: 0, zoom: 1})
VariantResetView(v) ==
  [v EXCEPT !.centerX = Rat(-5, 10), !.centerY = R(0), !.zoom = R(1)]

\* the interval callback's updater: prev => ({...prev, zoom: prev.zoom * 1.05})
VariantTickView(prev) == [prev EXCEPT !.zoom = RMul(prev.zoom, Rat(105, 100))]

\* useEffect(..., [isContinuousZoom]): the cleanup the previous run returned
\* clears that run's timer, then the effect arms one if dive mode is on
VariantZoomEffect(dive) ==
  LET cleared == intervals \ {continuousZoomRef}
  IN  IF dive
      THEN /\ intervals' = cleared \cup {VariantInterval(ops + 1)}
           /\ continuousZoomRef' = VariantInterval(ops + 1)
      ELSE /\ intervals' = cleared
           /\ continuousZoomRef' = None

\* the commit after a handler that called setView(nv)
VariantCommitView(nv) ==
  /\ view' = nv
  /\ ops' = ops + 1
  /\ DrawEffect(nv)
  /\ StatsEffect(nv)
  /\ maxZoomSeen' = RMax(maxZoomSeen, nv.zoom)
  /\ UNCHANGED game
  /\ UNCHANGED <<isContinuousZoom, intervals, continuousZoomRef>>

\* the buttons that call setView
VariantButton(op, nv) ==
  /\ CanSetView
  /\ VariantCommitView(nv)
  /\ last' = Event(op)
  /\ UNCHANGED <<isDraggingRef, lastMousePosRef, sidebarOpen, shown, sweep,
                 zoomTarget, dragDistanceRef, dailyChallenge, gesture>>

VariantZoomInButton == VariantButton("zoomIn", ZoomInView(view))
VariantZoomOutButton == VariantButton("zoomOut", VariantZoomOutView(view))
VariantPaletteButton ==
  \E s \in PaletteButtons : VariantButton("palette", SchemeView(view, s))
VariantLandmarkButton ==
  \E loc \in InterestingLocations :
    VariantButton("landmark", LandmarkView(view, loc))
VariantResetButton == VariantButton("reset", VariantResetView(view))

\* the continuous zoom toggle: setIsContinuousZoom(!isContinuousZoom)
VariantDiveButton ==
  /\ CanHandle
  /\ isContinuousZoom' = ~isContinuousZoom
  /\ VariantZoomEffect(~isContinuousZoom)
  /\ ops' = ops + 1
  /\ last' = Event("dive")
  /\ UNCHANGED <<view, canvas, pending, isRendering, stats, maxZoomSeen, game,
                 isDraggingRef, lastMousePosRef, sidebarOpen, shown, sweep,
                 zoomTarget, dragDistanceRef, dailyChallenge, gesture>>

\* one firing of a live interval
VariantTick ==
  \E t \in intervals :
    /\ CanSetView /\ SmallView(view)
    /\ VariantCommitView(VariantTickView(view))
    /\ last' = Event("tick")
    /\ UNCHANGED <<isDraggingRef, lastMousePosRef, sidebarOpen, shown, sweep,
                   zoomTarget, dragDistanceRef, dailyChallenge, gesture>>

\* handleMouseDown, for any button
VariantMouseDown(p) ==
  /\ CanHandle
  /\ isDraggingRef' = TRUE
  /\ lastMousePosRef' = [x |-> p[1], y |-> p[2]]
  /\ ops' = ops + 1
  /\ last' = Event("down")
  /\ UNCHANGED <<view, isContinuousZoom, intervals, continuousZoomRef, canvas,
                 pending, isRendering, stats, maxZoomSeen, game, sidebarOpen, shown,
                 sweep, zoomTarget, dragDistanceRef, dailyChallenge, gesture>>

\* handleMouseMove: if (!isDraggingRef.current || !canvasRef.current) return
VariantMouseMove(p) ==
  LET dx == p[1] - lastMousePosRef.x
      dy == p[2] - lastMousePosRef.y
  IN  /\ isDraggingRef
      /\ CanSetView /\ SmallView(view)
      /\ VariantCommitView(PanView(view, view, dx, dy, canvas))
      /\ lastMousePosRef' = [x |-> p[1], y |-> p[2]]
      /\ last' = Event("pan")
      /\ UNCHANGED <<isDraggingRef, sidebarOpen, shown, sweep, zoomTarget,
                     dragDistanceRef, dailyChallenge, gesture>>

\* onMouseUp and onMouseLeave: isDraggingRef.current = false
VariantMouseUp ==
  /\ CanHandle
  /\ isDraggingRef' = FALSE
  /\ lastMousePosRef' = NoDragPos
  /\ ops' = ops + 1
  /\ last' = Event("up")
  /\ UNCHANGED <<view, isContinuousZoom, intervals, continuousZoomRef, canvas,
                 pending, isRendering, stats, maxZoomSeen, game, sidebarOpen, shown,
                 sweep, zoomTarget, dragDistanceRef, dailyChallenge, gesture>>

\* the state after the mount: the first draw() has been called and its
\* sweep waits
InitVariant ==
  /\ view = DefaultView
  /\ isContinuousZoom = FALSE
  /\ zoomTarget = [x |-> 0, y |-> 0]
  /\ isDraggingRef = FALSE
  /\ lastMousePosRef = NoDragPos
  /\ dragDistanceRef = NoDragDistance
  /\ sidebarOpen = TRUE
  /\ canvas = [width |-> OffsetWidth(TRUE), height |-> OffsetHeight]
  /\ continuousZoomRef = None
  /\ intervals = {}
  /\ pending = <<[snap |-> Snapshot(DefaultView, OffsetWidth(TRUE), OffsetHeight),
                  req  |-> Snapshot(DefaultView, OffsetWidth(TRUE), OffsetHeight)]>>
  /\ isRendering = TRUE
  /\ shown = None
  /\ dailyChallenge = None
  /\ gesture = None
  /\ ops = 0
  /\ last = Event("mount")
  /\ sweep = None
  /\ stats = StatsOf(R(1), R(1))
  /\ maxZoomSeen = view.zoom
  /\ GameAtMount("Variant")

NextVariant ==
  \/ \E p \in ClientPts : VariantMouseDown(p)
  \/ \E p \in ClientPts : VariantMouseMove(p)
  \/ VariantMouseUp
  \/ VariantZoomInButton
  \/ VariantZoomOutButton
  \/ VariantPaletteButton
  \/ VariantLandmarkButton
  \/ VariantResetButton
  \/ VariantDiveButton
  \/ SidebarButton
  \/ VariantTick
  \/ Sweep

SpecVariant == InitVariant /\ [][NextVariant]_vars


----------------------------------------------------------------------------
(* The AI analysis: analyzeFractalLocation of src/services/geminiService.ts *)
(* and its copy in the variant                                              *)

\* x.toFixed(digits) of a Number x = n/d, as the sign and the digits of the
\* string: the number is divided out digit by digit, the last digit rounded
\* on the rest (a tie goes away from zero); "-0.000000" keeps its sign
RECURSIVE FixedDigits(_, _, _, _)
FixedDigits(acc, rest, d, digits) ==
  IF digits = 0
  THEN IF 2 * rest >= d THEN acc + 1 ELSE acc
  ELSE FixedDigits(acc * 10 + (rest * 10) \div d, (rest * 10) % d, d, digits - 1)

ToFixed(x, digits) ==
  [negative |-> x[1] < 0,
   shifted  |-> FixedDigits(Abs(x[1]) \div x[2], Abs(x[1]) % x[2], x[2], digits)]

\* `(${x.toFixed(6)}, ${y.toFixed(6)})`
FractionDigits == 6
Coordinates(x, y) == <<ToFixed(x, FractionDigits), ToFixed(y, FractionDigits)>>

\* the texts the narrative service answers with: a full answer, answers that
\* lack keys or leave them empty, JSON that is no object, text that is no
\* JSON, blank text
FullText ==
  "{\"title\":\"Seahorse Gate\",\"description\":\"Spirals fold.\",\"suggestion\":\"Go left.\"}"
TitleOnlyText == "{\"title\":\"Seahorse Gate\"}"
EmptyTitleText ==
  "{\"title\":\"\",\"description\":\"Spirals fold.\",\"suggestion\":\"Go left.\"}"
ResponseTexts ==
  {FullText, TitleOnlyText, EmptyTitleText, "{}", "null", "[]", "{\"title\":",
   "Here is the landscape.", "", "   "}

\* text.trim(), on ResponseTexts
Trim(text) == IF text = "   " THEN "" ELSE text

\* what generateContent() comes to: a response with a text, a response
\* whose text is undefined, or a rejection (network, quota, a refused key)
ServiceOutcomes ==
  [kind : {"response"}, text : ResponseTexts]
    \cup {[kind |-> "no text"], [kind |-> "rejects"]}

\* response.text?.trim() || '{}'
SourceText(outcome) ==
  IF outcome.kind = "no text" \/ Trim(outcome.text) = "" THEN "{}"
  ELSE Trim(outcome.text)

\* the values JSON.parse gives
JsonObject(props) == [type |-> "object", props |-> props]
JsonNull == [type |-> "null"]
JsonArray == [type |-> "array"]
SyntaxError == [type |-> "SyntaxError"]

\* JSON.parse(text), on the trimmed ResponseTexts and '{}'
JsonParse(text) ==
  CASE text = FullText ->
         JsonObject([title |-> "Seahorse Gate", description |-> "Spirals fold.",
                     suggestion |-> "Go left."])
    [] text = TitleOnlyText -> JsonObject([title |-> "Seahorse Gate"])
    [] text = EmptyTitleText ->
         JsonObject([title |-> "", description |-> "Spirals fold.",
                     suggestion |-> "Go left."])
    [] text = "{}" -> JsonObject(<<>>)
    [] text = "null" -> JsonNull
    [] text = "[]" -> JsonArray
    [] OTHER -> SyntaxError

\* result.key || fallback: a key that is missing reads as undefined, and
\* undefined and "" are falsy
KeyOr(result, key, fallback) ==
  IF result.type = "object" /\ key \in DOMAIN result.props /\ result.props[key] # ""
  THEN result.props[key]
  ELSE fallback

\* the texts of the return statements: those of the try block stand in for
\* missing keys, those of the catch block are returned as they are
DefaultTexts(c) ==
  IF c = "App"
  THEN [title |-> "The Infinite Edge",
        description |-> "You stand at the boundary between chaos and order, where complex numbers dance in recursive loops.",
        suggestion |-> "Try zooming deeper into the filaments for higher complexity."]
  ELSE [title |-> "The Infinite Edge",
        description |-> "Chaos meets order in a recursive dance.",
        suggestion |-> "Look deeper into the filaments."]
CatchTexts(c) ==
  IF c = "App"
  THEN [title |-> "Mathematical Infinity",
        description |-> "An intricate boundary where iteration reveals the beautiful complexity of the Mandelbrot set.",
        suggestion |-> "Keep exploring the edges of the set to find more patterns."]
  ELSE [title |-> "Mathematical Infinity",
        description |-> "A boundary where beautiful complexity is revealed.",
        suggestion |-> "Keep exploring the edges."]

\* a wrong analyzeFractalLocation, to try property C34 on: the answer's keys
\* are passed on as they are
AnalyzeFractalLocationUnchecked(c, x, y, outcome) ==
  LET result == IF outcome.kind = "rejects" THEN SyntaxError
                ELSE JsonParse(SourceText(outcome))
  IN  IF result.type \in {"object", "array"}
      THEN [title       |-> IF result.type = "object"
                                 /\ "title" \in DOMAIN result.props
                            THEN result.props.title ELSE "",
            description |-> KeyOr(result, "description", DefaultTexts(c).description),
            suggestion  |-> KeyOr(result, "suggestion", DefaultTexts(c).suggestion),
            coordinates |-> Coordinates(x, y)]
      ELSE [title       |-> CatchTexts(c).title,
            description |-> CatchTexts(c).description,
            suggestion  |-> CatchTexts(c).suggestion,
            coordinates |-> Coordinates(x, y)]

\* the value the promise of analyzeFractalLocation(x, y, zoom) resolves to,
\* by what generateContent() came to.  The catch block is entered when
\* generateContent() rejects, when JSON.parse throws, and when a key of null
\* is read.  The client is constructed before the try block; its constructor
\* is the library's, and is taken to return.
AnalyzeFractalLocation(c, x, y, outcome) ==
  LET caught == [title       |-> CatchTexts(c).title,
                 description |-> CatchTexts(c).description,
                 suggestion  |-> CatchTexts(c).suggestion,
                 coordinates |-> Coordinates(x, y)]
  IN  IF outcome.kind = "rejects" THEN caught
      ELSE LET result == JsonParse(SourceText(outcome))
           IN  IF result.type \in {"SyntaxError", "null"} THEN caught
               ELSE [title       |-> KeyOr(result, "title", DefaultTexts(c).title),
                     description |-> KeyOr(result, "description",
                                           DefaultTexts(c).description),
                     suggestion  |-> KeyOr(result, "suggestion",
                                           DefaultTexts(c).suggestion),
                     coordinates |-> Coordinates(x, y)]

----------------------------------------------------------------------------
(* The achievements and the analysis request under React *)

\* SpecGame follows the game state of either component: the exploration
\* timer, the stats sync, the achievement engine and the analysis request.
\* React is modelled by its contract.  A state setter puts an update in the
\* queue; a render applies the queued updates in order and commits; the
\* effects whose dependencies changed run after the commit, with the state
\* of that render in their closures, and before the next render.  A pointer
\* event's update is rendered at the end of the event, without the updates
\* that timers, promises and effects have queued (React renders these
\* apart, and together).  The dive is left to Spec.

\* events in one behaviour of SpecGame
MaxGameOps == 2

\* ACHIEVEMENTS, by id and in order
Achievements(c) ==
  IF c = "App"
  THEN <<"first_dive", "depth_seeker", "abyssal_explorer", "pattern_hunter",
         "stay_awhile", "high_score">>
  ELSE <<"first_dive", "depth_seeker", "abyssal_explorer", "stay_awhile",
         "high_score">>

\* achievement.condition(s)
Condition(id, s) ==
  CASE id = "first_dive"       -> RLt(R(10), s.zoom)
    [] id = "depth_seeker"     -> RLe(R(1000), s.maxZoom)
    [] id = "abyssal_explorer" -> RLe(R(1000000), s.maxZoom)
    [] id = "pattern_hunter"   -> s.patternsFound >= 5
    [] id = "stay_awhile"      -> s.timeInSeconds >= 600
    [] id = "high_score"       -> s.points >= 1000

\* the points of an unlocked achievement: the variant's effect calls
\* setStats(s => ({...s, points: s.points + 100})), that of App.tsx does not
AwardPoints == 100
\* the points of an analysis
AnalysisPoints == 25

Includes(list, x) == \E i \in 1..Len(list) : list[i] = x

\* the state a render works on
ReactState ==
  [stats |-> stats, unlockedAchievements |-> unlockedAchievements,
   recentAchievement |-> recentAchievement, isAnalyzing |-> isAnalyzing,
   aiAnalysis |-> aiAnalysis]

\* the updaters and values handed to the state setters
ApplyUpdate(u, s) ==
  CASE u.state = "stats" /\ u.op = "second" ->
         [s EXCEPT !.stats.timeInSeconds = @ + 1]
    [] u.state = "stats" /\ u.op = "sync" ->
         [s EXCEPT !.stats.zoom = u.zoom,
                   !.stats.maxZoom = RMax(@, u.zoom)]
    [] u.state = "stats" /\ u.op = "points" ->
         [s EXCEPT !.stats.points = @ + u.by]
    [] u.state = "unlockedAchievements" ->
         [s EXCEPT !.unlockedAchievements = Append(@, u.id)]
    [] u.state = "recentAchievement" ->
         [s EXCEPT !.recentAchievement = u.value]
    [] u.state = "isAnalyzing" ->
         [s EXCEPT !.isAnalyzing = u.value]
    [] u.state = "aiAnalysis" ->
         [s EXCEPT !.aiAnalysis = u.value]

RECURSIVE ApplyUpdates(_, _)
ApplyUpdates(queue, s) ==
  IF queue = <<>> THEN s
  ELSE ApplyUpdates(Tail(queue), ApplyUpdate(Head(queue), s))

Sets(queue, state) == \E i \in 1..Len(queue) : queue[i].state = state

\* a wrong achievement engine, to try property C35 on: it does not look at
\* the list of unlocked achievements
RECURSIVE AchievementUpdatesUnlisted(_, _, _, _)
AchievementUpdatesUnlisted(c, list, s, unlocked) ==
  IF list = <<>> THEN <<>>
  ELSE LET id   == Head(list)
           rest == AchievementUpdatesUnlisted(c, Tail(list), s, unlocked)
       IN  IF Condition(id, s)
           THEN <<[state |-> "unlockedAchievements", id |-> id],
                  [state |-> "recentAchievement", value |-> [id |-> id]]>>
                \o (IF c = "Variant"
                    THEN <<[state |-> "stats", op |-> "points",
                            by |-> AwardPoints, id |-> id]>>
                    ELSE <<>>)
                \o rest
           ELSE rest

\* the achievement engine: the setter calls of ACHIEVEMENTS.forEach(...),
\* given the stats s and the list unlocked of the effect's closure
RECURSIVE AchievementUpdates(_, _, _, _)
AchievementUpdates(c, list, s, unlocked) ==
  IF list = <<>> THEN <<>>
  ELSE LET id   == Head(list)
           rest == AchievementUpdates(c, Tail(list), s, unlocked)
       IN  IF ~Includes(unlocked, id) /\ Condition(id, s)
           THEN <<[state |-> "unlockedAchievements", id |-> id],
                  [state |-> "recentAchievement", value |-> [id |-> id]]>>
                \o (IF c = "Variant"
                    THEN <<[state |-> "stats", op |-> "points",
                            by |-> AwardPoints, id |-> id]>>
                    ELSE <<>>)
                \o rest
           ELSE rest

\* the ids a sequence of updates unlocks, and those it grants points for
RECURSIVE UnlockedBy(_)
UnlockedBy(queue) ==
  IF queue = <<>> THEN <<>>
  ELSE (IF Head(queue).state = "unlockedAchievements"
        THEN <<Head(queue).id>> ELSE <<>>) \o UnlockedBy(Tail(queue))
RECURSIVE AwardedBy(_)
AwardedBy(queue) ==
  IF queue = <<>> THEN <<>>
  ELSE (IF Head(queue).state = "stats" /\ Head(queue).op = "points"
           /\ Head(queue).by = AwardPoints
        THEN <<Head(queue).id>> ELSE <<>>) \o AwardedBy(Tail(queue))

\* the navigation state that SpecGame leaves as it is, and the state of the
\* drawing
gameFrame == <<isContinuousZoom, zoomTarget, isDraggingRef, lastMousePosRef,
               dragDistanceRef, sidebarOpen, continuousZoomRef, intervals,
               shown, dailyChallenge, gesture, sweep>>
drawState == <<canvas, pending, isRendering>>

CanHandleGame == ops < MaxGameOps

\* setInterval(() => setStats(prev => ({...prev, timeInSeconds:
\* prev.timeInSeconds + 1})), 1000)
ExplorationTimer ==
  /\ CanHandleGame
  /\ updates' = Append(updates, [state |-> "stats", op |-> "second"])
  /\ ops' = ops + 1
  /\ last' = Event("second")
  /\ UNCHANGED <<view, stats, maxZoomSeen, unlockedAchievements,
                 recentAchievement, hideTimers, isAnalyzing, aiAnalysis,
                 requests, effects, component, awarded, gameFrame, drawState>>

\* a pointer event that calls setView(nv), with its render: the draw effect
\* runs, and the stats sync effect is due if the zoom changed
PointerCommit(nv, op) ==
  /\ CanHandleGame
  /\ effects = <<>>
  /\ view' = nv
  /\ DrawEffect(nv)
  /\ effects' = IF nv.zoom # view.zoom
                THEN <<[effect |-> "sync", zoom |-> nv.zoom]>>
                ELSE <<>>
  /\ maxZoomSeen' = RMax(maxZoomSeen, nv.zoom)
  /\ ops' = ops + 1
  /\ last' = Event(op)
  /\ UNCHANGED <<stats, unlockedAchievements, recentAchievement, hideTimers,
                 isAnalyzing, aiAnalysis, requests, updates, component,
                 awarded, gameFrame>>

\* the landmarks used in SpecGame, at zoom 100 and 2000
GameLandmarks ==
  {loc \in InterestingLocations :
     loc.x \in {Rat(-7463, 10000), Rat(-74364, 100000)}}
\* the drags made in SpecGame, as the pointer's displacement in px
GameDrags == {<<3, 4>>}

ZoomInClick == PointerCommit(ZoomInView(view), "zoom in")
ZoomOutClick == PointerCommit(ZoomOutView(view), "zoom out")
ResetClick == PointerCommit(ResetView(view), "reset")
LandmarkClick ==
  \E loc \in GameLandmarks : PointerCommit(LandmarkView(view, loc), "landmark")
\* a drag of the canvas, as one step
Drag ==
  \E d \in GameDrags :
    /\ SmallView(view)
    /\ PointerCommit(PanView(view, view, d[1], d[2], canvas), "drag")

\* the effects of the last commit, in order of declaration: the achievement
\* engine (deps [stats, unlockedAchievements]) and the stats sync (deps
\* [view.zoom])
RunEffect ==
  /\ effects # <<>>
  /\ LET e == Head(effects)
         queued ==
           IF e.effect = "sync"
           THEN <<[state |-> "stats", op |-> "sync", zoom |-> e.zoom]>>
           ELSE AchievementUpdates(component, Achievements(component),
                                   e.stats, e.unlockedAchievements)
     IN  /\ updates' = updates \o queued
         /\ hideTimers' = hideTimers + Len(UnlockedBy(queued))
         /\ awarded' = awarded \o AwardedBy(queued)
  /\ effects' = Tail(effects)
  /\ last' = Event("effect")
  /\ UNCHANGED <<view, stats, maxZoomSeen, unlockedAchievements,
                 recentAchievement, isAnalyzing, aiAnalysis, requests,
                 component, ops, gameFrame, drawState>>

\* setTimeout(() => setRecentAchievement(null), 4000)
HideAchievement ==
  /\ hideTimers > 0
  /\ hideTimers' = hideTimers - 1
  /\ updates' = Append(updates, [state |-> "recentAchievement", value |-> None])
  /\ last' = Event("hide")
  /\ UNCHANGED <<view, stats, maxZoomSeen, unlockedAchievements,
                 recentAchievement, isAnalyzing, aiAnalysis, requests, effects,
                 component, awarded, ops, gameFrame, drawState>>

\* a render of the queued updates and its commit; the achievement engine is
\* due if setStats or setUnlockedAchievements was called (every call hands
\* over a new object)
Render ==
  /\ updates # <<>>
  /\ effects = <<>>
  /\ LET s == ApplyUpdates(updates, ReactState)
     IN  /\ stats' = s.stats
         /\ unlockedAchievements' = s.unlockedAchievements
         /\ recentAchievement' = s.recentAchievement
         /\ isAnalyzing' = s.isAnalyzing
         /\ aiAnalysis' = s.aiAnalysis
         /\ effects' =
              IF Sets(updates, "stats") \/ Sets(updates, "unlockedAchievements")
              THEN <<[effect |-> "achievements", stats |-> s.stats,
                      unlockedAchievements |-> s.unlockedAchievements]>>
              ELSE <<>>
  /\ updates' = <<>>
  /\ last' = Event("render")
  /\ UNCHANGED <<view, maxZoomSeen, hideTimers, requests, component, awarded,
                 ops, gameFrame, drawState>>

\* performAIAnalysis / handleAnalyze up to its await: the button is disabled
\* while isAnalyzing; setIsAnalyzing(true) is rendered at the end of the click
PerformAIAnalysis ==
  /\ CanHandleGame
  /\ effects = <<>>
  /\ ~isAnalyzing
  /\ isAnalyzing' = TRUE
  /\ requests' = requests \cup
       {[x |-> view.centerX, y |-> view.centerY, zoom |-> view.zoom]}
  /\ ops' = ops + 1
  /\ last' = Event("analyze")
  /\ UNCHANGED <<view, stats, maxZoomSeen, unlockedAchievements,
                 recentAchievement, hideTimers, aiAnalysis, updates, effects,
                 component, awarded, gameFrame, drawState>>

\* the rest of performAIAnalysis / handleAnalyze, once the promise of
\* analyzeFractalLocation has resolved: the three setter calls, in the
\* order of the component
AnalysisUpdates(c, result, r) ==
  LET setAi     == [state |-> "aiAnalysis", value |-> result, request |-> r]
      setBusy   == [state |-> "isAnalyzing", value |-> FALSE]
      setPoints == [state |-> "stats", op |-> "points", by |-> AnalysisPoints]
  IN  IF c = "App" THEN <<setAi, setBusy, setPoints>>
      ELSE <<setAi, setPoints, setBusy>>

\* generateContent() settles, analyzeFractalLocation returns, and the
\* handler that awaits it goes on
ServiceAnswers ==
  \E r \in requests, outcome \in ServiceOutcomes :
    /\ requests' = requests \ {r}
    /\ updates' = updates \o
         AnalysisUpdates(component,
                         AnalyzeFractalLocation(component, r.x, r.y, outcome), r)
    /\ last' = Event("answer")
    /\ UNCHANGED <<view, stats, maxZoomSeen, unlockedAchievements,
                   recentAchievement, hideTimers, isAnalyzing, aiAnalysis,
                   effects, component, awarded, ops, gameFrame, drawState>>

\* the close button of the analysis panel: setAiAnalysis(null)
CloseAnalysis ==
  /\ CanHandleGame
  /\ effects = <<>>
  /\ aiAnalysis # None
  /\ aiAnalysis' = None
  /\ ops' = ops + 1
  /\ last' = Event("close")
  /\ UNCHANGED <<view, stats, maxZoomSeen, unlockedAchievements,
                 recentAchievement, hideTimers, isAnalyzing, requests, updates,
                 effects, component, awarded, gameFrame, drawState>>

\* the zoom, seconds and points a session of SpecGame starts with: those of
\* the mount, or those after three clicks on zoom in, 599 ticks of the
\* exploration timer and 39 analyses (36 in the variant) whose panel was
\* closed
Sessions(c) ==
  {[zoom |-> R(1), seconds |-> 0, points |-> 0],
   [zoom |-> R(8), seconds |-> 599, points |-> IF c = "App" THEN 975 ELSE 900]}

\* the draw() call of a session's viewport
SessionDraw(v) ==
  [snap |-> Snapshot(v, OffsetWidth(TRUE), OffsetHeight),
   req  |-> Snapshot(v, OffsetWidth(TRUE), OffsetHeight)]

InitGame ==
  /\ component \in {"App", "Variant"}
  /\ \E session \in Sessions(component) :
       /\ view = [DefaultView EXCEPT !.zoom = session.zoom]
       /\ stats = [StatsOf(session.zoom, session.zoom)
                     EXCEPT !.timeInSeconds = session.seconds,
                            !.points = session.points]
  /\ maxZoomSeen = view.zoom
  /\ unlockedAchievements = <<>>
  /\ recentAchievement = None
  /\ hideTimers = 0
  /\ isAnalyzing = FALSE
  /\ aiAnalysis = None
  /\ requests = {}
  /\ updates = <<>>
  /\ effects = <<>>
  /\ awarded = <<>>
  /\ isContinuousZoom = FALSE
  /\ zoomTarget = [x |-> 0, y |-> 0]
  /\ isDraggingRef = FALSE
  /\ lastMousePosRef = NoDragPos
  /\ dragDistanceRef = NoDragDistance
  /\ sidebarOpen = TRUE
  /\ canvas = [width |-> OffsetWidth(TRUE), height |-> OffsetHeight]
  /\ continuousZoomRef = None
  /\ intervals = {}
  /\ IF view.zoom = DefaultView.zoom
     THEN /\ pending = <<SessionDraw(view)>>
          /\ isRendering = TRUE
          /\ shown = None
     ELSE /\ pending = <<>>
          /\ isRendering = FALSE
          /\ shown = [image |-> SessionDraw(view).snap,
                      req   |-> SessionDraw(view).req]
  /\ IF component = "App"
     THEN \E today \in 0..MaxToday :
            dailyChallenge = DailyChallenges[(today % Len(DailyChallenges)) + 1]
     ELSE dailyChallenge = None
  /\ gesture = None
  /\ ops = 0
  /\ last = Event("mount")
  /\ sweep = None

NextGame ==
  \/ ExplorationTimer
  \/ ZoomInClick
  \/ ZoomOutClick
  \/ ResetClick
  \/ LandmarkClick
  \/ Drag
  \/ PerformAIAnalysis
  \/ ServiceAnswers
  \/ CloseAnalysis
  \/ Render
  \/ RunEffect
  \/ HideAchievement
  \/ Sweep

SpecGame == InitGame /\ [][NextGame]_vars

\* SpecGame where the promise of generateContent() settles and React gets to
\* render and to run its effects
SpecGameLive ==
  /\ SpecGame
  /\ WF_vars(ServiceAnswers)
  /\ WF_vars(Render)
  /\ WF_vars(RunEffect)

----------------------------------------------------------------------------
(* Properties of the navigation *)

\* the click-zoom of the view v at the canvas pixel (x, y) of the canvas cv
ZoomedAt(v, x, y, cv) ==
  [v EXCEPT
     !.centerX = PixelToPlaneX(v.centerX, v.zoom, x, cv.width, cv.height),
     !.centerY = PixelToPlaneY(v.centerY, v.zoom, y, cv.height),
     !.zoom    = RMul(R(2), v.zoom)]

\* C1: a click without pointer travel and without modifier at the canvas
\* pixel (px, py) sets the centre to pixelToPlane(px, py) of the viewport
\* before the click and doubles the zoom; at the exact centre of the canvas
\* the centre stays as it is.
C1_ClickZoom ==
  [][ (last'.op = "click" /\ last'.travel = 0)
      => /\ view' = ZoomedAt(view, last'.x, last'.y, canvas)
         /\ (2 * last'.x = canvas.width /\ 2 * last'.y = canvas.height)
              => /\ view'.centerX = view.centerX
                 /\ view'.centerY = view.centerY ]_vars

\* a click off the centre of the canvas has moved the centre and doubled
\* the zoom
C1_Witness ==
  /\ last.op = "click" /\ last.travel = 0
  /\ 2 * last.x # canvas.width
  /\ view.centerX # DefaultView.centerX
  /\ view.zoom = R(2)

\* C2: every dive tick steers to the plane point that lies under the
\* ZoomTarget pixel in the viewport current at that tick: the centre moves
\* 20% of the way to it and the zoom grows by the factor 1.05, whatever
\* happened between the ticks.
C2_TickSteersInCurrentView ==
  [][ last'.op = "tick"
      => LET tx == PixelToPlaneX(view.centerX, view.zoom, zoomTarget.x,
                                 canvas.width, canvas.height)
             ty == PixelToPlaneY(view.centerY, view.zoom, zoomTarget.y,
                                 canvas.height)
         IN  view' =
               [view EXCEPT
                  !.centerX = RAdd(view.centerX,
                                   RMul(Rat(1, 5), RSub(tx, view.centerX))),
                  !.centerY = RAdd(view.centerY,
                                   RMul(Rat(1, 5), RSub(ty, view.centerY))),
                  !.zoom    = RMul(Rat(21, 20), view.zoom)] ]_vars

\* C3 as stated: a gesture of less than 5 px travel ends in the pre-gesture
\* viewport re-centred on the plane point under the pointer-up pixel, zoom
\* doubled, nothing of the gesture's pans left; one of 5 px or more only
\* pans.
C3_ClickZoomOfPreGestureView ==
  [][ (isDraggingRef /\ ~isDraggingRef' /\ gesture.pure
       /\ last'.op # "modifier-click")
      => IF last'.travel < 5
         THEN view' = ZoomedAt(gesture.view, last'.x, last'.y, canvas)
         ELSE view' = view /\ view.zoom = gesture.view.zoom ]_vars

\* C3, amended: a gesture of less than 5 px travel ends in a click-zoom of
\* the viewport current at the pointer-up, which the gesture's pointer-moves
\* have panned already: that viewport is re-centred on the plane point
\* under the pointer-up pixel and its zoom doubled.  A gesture of 5 px or
\* more is not changed by the pointer-up: it only pans, the zoom stays.
C3_ClickZoomOfPannedView ==
  [][ (isDraggingRef /\ ~isDraggingRef' /\ last'.op # "modifier-click")
      => IF last'.travel < 5
         THEN view' = ZoomedAt(view, last'.x, last'.y, canvas)
         ELSE /\ view' = view
              /\ gesture.pure => view.zoom = gesture.view.zoom ]_vars

\* a gesture of 3 or 4 px has ended in a click-zoom
C3_Witness ==
  /\ last.op = "click"
  /\ last.travel > 0 /\ last.travel < 5
  /\ view.zoom = R(2)

\* C4: the reset button yields exactly the default viewport from any state,
\* and a second reset changes nothing.
C4_Reset ==
  [][ last'.op = "reset"
      => /\ view' = DefaultView
         /\ last.op = "reset" => view' = view ]_vars

\* a reset of a viewport that had another iteration limit
C4_Witness ==
  /\ last.op = "reset"
  /\ view = DefaultView
  /\ Len(pending) = 2
  /\ pending[1].req.view.maxIterations # DefaultView.maxIterations

\* C5: a pan by the pixel delta (dx, dy) subtracts dx * scale * aspect /
\* width and dy * scale / height from the centre and leaves zoom,
\* iteration limit and palette alone; a drag to the right moves the centre
\* left; a zero delta leaves the viewport as it is.
C5_Pan ==
  [][ last'.op = "pan"
      => LET dx == lastMousePosRef'.x - lastMousePosRef.x
             dy == lastMousePosRef'.y - lastMousePosRef.y
             scale  == RDiv(Rat(7, 2), view.zoom)
             aspect == Rat(canvas.width, canvas.height)
         IN  /\ view' =
                  [view EXCEPT
                     !.centerX =
                        RSub(view.centerX,
                             RDiv(RMul(R(dx), RMul(scale, aspect)),
                                  R(canvas.width))),
                     !.centerY =
                        RSub(view.centerY,
                             RDiv(RMul(R(dy), scale), R(canvas.height)))]
             /\ dx > 0 => RLt(view'.centerX, view.centerX)
             /\ (dx = 0 /\ dy = 0) => view' = view ]_vars

\* a drag to the right has moved the centre left
C5_Witness ==
  /\ last.op = "pan"
  /\ RLt(view.centerX, DefaultView.centerX)
  /\ view.zoom = DefaultView.zoom

\* C8: every buffer put on the canvas was computed from the viewport and the
\* canvas size of the draw() call that requested it, and the sweep leaves
\* the viewport alone.
C8_OneSnapshot ==
  /\ [](shown # None => shown.image = shown.req)
  /\ [][last'.op = "sweep" => view' = view]_vars

\* a buffer is on the canvas whose viewport the application has left since
C8_Witness ==
  /\ shown # None
  /\ shown.image.view # view
  /\ pending # <<>>

C11_DiveEndsOnlyByToggle ==
  /\ [](isContinuousZoom <=> intervals # {})
  /\ [][isContinuousZoom' # isContinuousZoom
          => last'.op \in {"dive", "modifier-click"}]_vars
  /\ [][last'.op = "tick" => isContinuousZoom /\ isContinuousZoom']_vars

\* a dive that ticked has been toggled off
C11_Witness ==
  /\ last.op = "dive"
  /\ ~isContinuousZoom
  /\ view.zoom = Rat(21, 20)

\* C29: at most one dive timer is armed at any time, and none while dive
\* mode is off: the armed timer is the one the effect can clear, and a step
\* that arms a timer (a toggle, a new ZoomTarget, a zoom change) leaves none
\* of the timers armed before it, so no timer period applies two ticks.
C29_OneTimerArmed ==
  /\ [](/\ Cardinality(intervals) <= 1
        /\ ~isContinuousZoom => intervals = {}
        /\ intervals # {} => intervals = {continuousZoomRef})
  /\ [][ intervals' \ intervals # {} => intervals' \cap intervals = {} ]_vars

\* a tick during a dive has re-run the effect: the timer armed now is the
\* one of that re-run, and the one that ticked is gone
C29_Witness ==
  /\ last.op = "tick"
  /\ isContinuousZoom
  /\ ops >= 2
  /\ intervals = {continuousZoomRef}
  /\ continuousZoomRef.id = ops

\* C12: the ZoomTarget is discarded when dive mode is turned off: while the
\* mode is off no pointer position is kept for the next dive (the target
\* has its initial value).
C12_TargetDiscarded == ~isContinuousZoom => zoomTarget = [x |-> 0, y |-> 0]

\* C13: while dive mode is on, a pointer move and a tick leave the running
\* timer running: they neither postpone nor replace its next firing.
C13_TimerKeepsCadence ==
  [][ (isContinuousZoom /\ last'.op \in {"move", "pan", "tick"})
      => intervals \subseteq intervals' ]_vars

\* C14: isRendering is true exactly while a requested render has not
\* finished its sweep, also when several renders wait.
C14_RenderingSignal ==
  isRendering <=> (pending # <<>> \/ (sweep # None /\ ~sweep.put))

\* C18 as stated: a dive tick that finds the ZoomTarget at the canvas
\* centre (width / 2, height / 2) leaves centerX and centerY as they are and
\* multiplies the zoom by 1.05; n such ticks in a row, with nothing between
\* them, leave the centre unchanged and the zoom multiplied by 1.05^n.
C18_TicksAtCentreKeepCentre ==
  [][ (last'.op = "tick" /\ 2 * zoomTarget.x = canvas.width
                         /\ 2 * zoomTarget.y = canvas.height)
      => /\ view'.centerX = view.centerX
         /\ view'.centerY = view.centerY
         /\ view'.zoom = RMul(Rat(21, 20), view.zoom) ]_vars

\* C26: every step that changes the viewport requests a render of the new
\* viewport on the canvas as it then is, behind the renders that wait; and
\* whenever no sweep waits, the image on the canvas is the one computed
\* from the current viewport and canvas size.
C26_LatestViewportShown ==
  /\ [](pending = <<>>
          => /\ shown # None
             /\ shown.image = Snapshot(view, canvas.width, canvas.height))
  /\ [][ view' # view
           => /\ Len(pending') = Len(pending) + 1
              /\ SubSeq(pending', 1, Len(pending)) = pending
              /\ pending'[Len(pending')].snap
                   = Snapshot(view', canvas'.width, canvas'.height) ]_vars

\* two renders waited, that of the mount and that of a zoom by the button;
\* both have been swept and the zoomed viewport is on the canvas
C26_Witness ==
  /\ pending = <<>>
  /\ last.op = "sweep"
  /\ ops = 1
  /\ view.zoom = R(2)
  /\ shown.image.view = view

\* C27 as stated: the controller is never dragging and diving at once, and
\* a pointer-down or a pointer-move received during a dive leaves the
\* centre where it is.
C27_OneModeAtATime ==
  /\ [](~(isDraggingRef /\ isContinuousZoom))
  /\ [][ (isContinuousZoom /\ last'.op \in {"down", "move", "pan"})
           => /\ view'.centerX = view.centerX
              /\ view'.centerY = view.centerY ]_vars

\* C19: after every commit stats.zoom is the view's zoom and stats.maxZoom
\* the largest zoom the view has had since the start; stats.maxZoom never
\* decreases.
C19_StatsSynchronised ==
  /\ [](stats.zoom = view.zoom /\ stats.maxZoom = maxZoomSeen)
  /\ [][RLe(stats.maxZoom, stats'.maxZoom)]_vars

\* a reset after a zoom in: maxZoom has kept the larger zoom
C19_Witness ==
  /\ last.op = "reset"
  /\ stats.zoom = R(1)
  /\ stats.maxZoom = R(2)

\* C20: the iteration limit is within 50..1000 in every state, whatever
\* is asked of the slider.
C20_IterationsInRange == view.maxIterations \in RangeMin..RangeMax

\* the slider was asked for more than its maximum
C20_Witness ==
  /\ last.op = "iterations"
  /\ view.maxIterations = RangeMax

\* C28: in the single-file variant too, the reset button yields exactly the
\* default viewport from any state: centre (-0.5, 0), zoom 1, iteration
\* limit 120 and the classic palette, whatever palette was selected before.
C28_VariantResetRestoresDefault ==
  [][ last'.op = "reset"
      => /\ view'.centerX = Rat(-5, 10) /\ view'.centerY = R(0)
         /\ view'.zoom = R(1)
         /\ view'.maxIterations = DefaultView.maxIterations
         /\ view'.colorScheme = DefaultView.colorScheme ]_vars

\* C30: navigation never touches the rendering policy.  Zoom in, zoom out,
\* pan, click-zoom, dive ticks and the jumps to a landmark or to the daily
\* challenge leave maxIterations and colorScheme as they are; the palette
\* buttons change nothing but colorScheme and the iterations slider nothing
\* but maxIterations; zoom in and zoom out leave the centre as it is.
C30_NavigationKeepsPolicy ==
  /\ [][ last'.op \in {"zoomIn", "zoomOut", "pan", "click", "tick",
                       "landmark", "challenge"}
         => /\ view'.maxIterations = view.maxIterations
            /\ view'.colorScheme = view.colorScheme ]_vars
  /\ [][ last'.op = "palette"
         => view' = [view EXCEPT !.colorScheme = view'.colorScheme] ]_vars
  /\ [][ last'.op = "iterations"
         => view' = [view EXCEPT !.maxIterations = view'.maxIterations] ]_vars
  /\ [][ last'.op \in {"zoomIn", "zoomOut"}
         => /\ view'.centerX = view.centerX
            /\ view'.centerY = view.centerY ]_vars

\* a jump to a landmark away from the start, made with another palette and
\* another iteration limit than the default ones
C30_Witness ==
  /\ last.op = "landmark"
  /\ view.colorScheme = "psychedelic"
  /\ view.maxIterations = 1000
  /\ view.zoom = R(100)

\* the events that end a drag: pointer-up or the pointer leaving the canvas,
\* by what handleMouseUp made of them
DragEnds == {"up", "click", "modifier-click"}

\* C31 as stated: a drag starts only on a left-button pointer-down; after a
\* pointer-up or leave, and after a pointer-down with another button, no
\* drag is going on, and without a drag a pointer-move leaves the centre
\* where it is.
C31_DragBetweenLeftDownAndUp ==
  /\ [][ (~isDraggingRef /\ isDraggingRef')
         => (last'.op = "down" /\ last'.button = 0) ]_vars
  /\ [][ (last'.op \in DragEnds \/ (last'.op = "down" /\ last'.button # 0))
         => ~isDraggingRef' ]_vars
  /\ [][ (~isDraggingRef /\ last'.op \in {"move", "pan"})
         => /\ view'.centerX = view.centerX
            /\ view'.centerY = view.centerY ]_vars

\* C31, amended: a pointer-down with another button starts no drag and ends
\* none: the drag of a left button held down goes on.
C31_OtherButtonKeepsDragState ==
  /\ [][ (~isDraggingRef /\ isDraggingRef')
         => (last'.op = "down" /\ last'.button = 0) ]_vars
  /\ [][ last'.op \in DragEnds => ~isDraggingRef' ]_vars
  /\ [][ (last'.op = "down" /\ last'.button # 0)
         => isDraggingRef' = isDraggingRef ]_vars
  /\ [][ (~isDraggingRef /\ last'.op \in {"move", "pan"})
         => /\ view'.centerX = view.centerX
            /\ view'.centerY = view.centerY ]_vars

\* a drag that panned the view has ended with a pointer-up
C31_Witness ==
  /\ last.op = "up"
  /\ ~isDraggingRef
  /\ view.centerX # DefaultView.centerX
  /\ ops = 3

\* C32: panning keeps the plane point under the pointer fixed.  For a
\* pointer-move of a drag from pixel p to pixel p + d that leaves the canvas
\* size as it is, the transform of the new viewport takes p + d to the point
\* the transform of the old one took p to; and the pan by -d, applied to the
\* new viewport, gives back the old centre.
C32_PanKeepsPointUnderPointer ==
  [][ (last'.op = "pan" /\ canvas' = canvas)
      => LET px == lastMousePosRef.x - RectLeft(sidebarOpen)
             py == lastMousePosRef.y - RectTop
             dx == lastMousePosRef'.x - lastMousePosRef.x
             dy == lastMousePosRef'.y - lastMousePosRef.y
             w  == canvas.width
             h  == canvas.height
             back == PanView(view', view', -dx, -dy, canvas')
         IN  /\ last'.x = px + dx /\ last'.y = py + dy
             /\ view'.zoom = view.zoom
             /\ PixelToPlaneX(view'.centerX, view'.zoom, last'.x, w, h)
                  = PixelToPlaneX(view.centerX, view.zoom, px, w, h)
             /\ PixelToPlaneY(view'.centerY, view'.zoom, last'.y, h)
                  = PixelToPlaneY(view.centerY, view.zoom, py, h)
             /\ back.centerX = view.centerX
             /\ back.centerY = view.centerY ]_vars

\* a drag went 5 px away and came back the same way: the centre is where it
\* was at the pointer-down
C32_Witness ==
  /\ last.op = "pan"
  /\ dragDistanceRef = 10
  /\ gesture # None /\ gesture.pure
  /\ view.centerX = gesture.view.centerX
  /\ view.centerY = gesture.view.centerY
  /\ canvas.width = OffsetWidth(sidebarOpen)

\* C33 as stated: a click with ctrl or meta held (pointer-down, then
\* pointer-up after less than 5 px of travel) toggles dive mode, and the
\* viewport after it is the viewport of before the pointer-down, in all five
\* fields.
C33_ModifierClickOnlyToggles ==
  [][ (last'.op = "modifier-click" /\ gesture.pure)
      => /\ isContinuousZoom' = ~isContinuousZoom
         /\ view' = gesture.view ]_vars

\* C33, amended: the pointer-up of such a click toggles dive mode and leaves
\* the viewport as it finds it.  Against the viewport of the pointer-down,
\* zoom, iteration limit and palette are the same, and the centre is the
\* same if the pointer did not travel; the pans of a travel of 1 to 4 px
\* stay in the centre.
C33_ModifierClickKeepsCurrentView ==
  [][ last'.op = "modifier-click"
      => /\ isContinuousZoom' = ~isContinuousZoom
         /\ view' = view
         /\ last'.travel < 5
         /\ gesture.pure
              => /\ view'.zoom = gesture.view.zoom
                 /\ view'.maxIterations = gesture.view.maxIterations
                 /\ view'.colorScheme = gesture.view.colorScheme
                 /\ last'.travel = 0 => view' = gesture.view ]_vars

\* a click with the modifier held, after 3 px of travel, has turned the dive
\* on; the centre is not the one of the pointer-down
C33_Witness ==
  /\ last.op = "modifier-click"
  /\ last.travel = 3
  /\ isContinuousZoom
  /\ view.centerX # DefaultView.centerX
  /\ view.zoom = DefaultView.zoom

----------------------------------------------------------------------------
(* Properties of the analysis request and of the achievements *)

\* the number a string of toFixed stands for
FixedValue(f) ==
  Rat((IF f.negative THEN -1 ELSE 1) * f.shifted, 10 ^ FractionDigits)

\* f is x to FractionDigits decimals: the sign of x, and of the whole
\* numbers of 10^-6 the one next to |x|, the larger of two that are equally
\* near.  |x| * 10^6 is taken apart as whole * 10^6 + thousands * 10^3 +
\* part / d.
RoundedTo(f, x) ==
  LET d         == x[2]
      whole     == Abs(x[1]) \div d
      thousands == ((Abs(x[1]) % d) * 1000) \div d
      part      == (((Abs(x[1]) % d) * 1000) % d) * 1000
      units     == f.shifted - whole * 1000000 - thousands * 1000
  IN  /\ f.negative = (x[1] < 0)
      /\ 2 * units * d <= 2 * part + d
      /\ 2 * part + d < 2 * (units + 1) * d

\* the texts of an analysis are not empty
HasTexts(a) == a.title # "" /\ a.description # "" /\ a.suggestion # ""

\* whatever the service comes to, the awaited calls resolve to an analysis
\* with texts, and the renders still due hand on such analyses
AnalysesHaveTexts ==
  /\ \A r \in requests, outcome \in ServiceOutcomes :
       LET a == AnalyzeFractalLocation(component, r.x, r.y, outcome)
       IN  DOMAIN a = {"title", "description", "suggestion", "coordinates"}
           /\ HasTexts(a)
  /\ \A i \in 1..Len(updates) :
       updates[i].state = "aiAnalysis" => HasTexts(updates[i].value)
  /\ aiAnalysis # None => HasTexts(aiAnalysis)

\* the render after the answer shows the analysis, ends isAnalyzing and, in
\* App.tsx, adds 25 points; while isAnalyzing lasts the points stay
AnalysisCompletes ==
  /\ [][ (last'.op = "render" /\ Sets(updates, "aiAnalysis"))
           => /\ ~isAnalyzing'
              /\ requests' = {}
              /\ \E i \in 1..Len(updates) :
                   updates[i].state = "aiAnalysis" /\ aiAnalysis' = updates[i].value
              /\ stats'.points = stats.points + 25
                                   + 100 * Len(AwardedBy(updates)) ]_vars
  /\ [][ (component = "App" /\ last'.op = "render" /\ Sets(updates, "aiAnalysis"))
           => stats'.points = stats.points + 25 ]_vars
  /\ [][ (component = "App" /\ isAnalyzing /\ isAnalyzing')
           => stats'.points = stats.points ]_vars
  /\ [][ (isAnalyzing /\ ~isAnalyzing')
           => (last'.op = "render" /\ Sets(updates, "aiAnalysis")) ]_vars

\* a request that is made is completed
AnalysisEnds == isAnalyzing ~> ~isAnalyzing

NoneTwice(list) ==
  \A i, j \in 1..Len(list) : list[i] = list[j] => i = j

\* the list after the updates still due
UnlockedSoon == unlockedAchievements \o UnlockedBy(updates)

\* C35: the list of unlocked achievements holds no id twice, now and with
\* the updates still due; an id is put in the queue, and later in the list,
\* only if its condition holds on the stats then rendered and the list does
\* not hold it; the list only grows at its end; in the variant the 100
\* points are granted once per unlocked achievement, in App.tsx never.
C35_UnlockedAtMostOnce ==
  /\ [](NoneTwice(unlockedAchievements) /\ NoneTwice(UnlockedSoon))
  /\ [](\A i \in 1..Len(UnlockedSoon) :
          Includes(Achievements(component), UnlockedSoon[i]))
  /\ [][ \A i \in 1..Len(UnlockedBy(updates')) :
           ~Includes(UnlockedBy(updates), UnlockedBy(updates')[i])
             => /\ last'.op = "effect"
                /\ Condition(UnlockedBy(updates')[i], stats)
                /\ ~Includes(unlockedAchievements, UnlockedBy(updates')[i]) ]_vars
  /\ [][ \A i \in 1..Len(unlockedAchievements') :
           IF i <= Len(unlockedAchievements)
           THEN unlockedAchievements'[i] = unlockedAchievements[i]
           ELSE /\ last'.op = "render"
                /\ Condition(unlockedAchievements'[i], stats)
                /\ Includes(UnlockedBy(updates), unlockedAchievements'[i]) ]_vars
  /\ [][ Len(unlockedAchievements') >= Len(unlockedAchievements) ]_vars
  /\ [](NoneTwice(awarded)
        /\ awarded = IF component = "Variant" THEN UnlockedSoon ELSE <<>>)
  /\ [][ (last'.op = "render" /\ ~Sets(updates, "aiAnalysis"))
           => stats'.points
                = stats.points
                  + 100 * (IF component = "Variant"
                           THEN Len(unlockedAchievements')
                                  - Len(unlockedAchievements)
                           ELSE 0) ]_vars

\* the variant, with a tick of the exploration timer and a click on zoom in
\* behind it: 600 seconds, zoom 16, and 900 points that the awards for
\* First Dive, Scholar and Grand Master have brought to 1200
C35_Witness ==
  /\ component = "Variant"
  /\ Len(unlockedAchievements) = 3
  /\ Includes(unlockedAchievements, "first_dive")
  /\ Includes(unlockedAchievements, "stay_awhile")
  /\ Includes(unlockedAchievements, "high_score")
  /\ stats.points = 1200
  /\ stats.timeInSeconds = 600
  /\ stats.zoom = R(16)
  /\ updates = <<>>
  /\ effects = <<>>

----------------------------------------------------------------------------
(* Properties of the renderer *)

\* the loop's check of x * x + y * y <= 4 holds at each of the checks number
\* k to n of the orbit of (x0, y0), whose k-th value is (x, y); the checks
\* are numbered from 0, the orbit starts at 0
RECURSIVE ChecksHold(_, _, _, _, _, _)
ChecksHold(x, y, k, n, x0, y0) ==
  IF k > n THEN TRUE
  ELSE IF ~RLe(Norm2(x, y), R(4)) THEN FALSE
  ELSE ChecksHold(NextX(x, y, x0), NextY(x, y, y0), k + 1, n, x0, y0)

\* a pixel has been swept: sweep.probe is what the escape loop was given and
\* what it returned
Probed == sweep # None /\ sweep.probe # None

\* C6 as stated: the escape loop ends with a count in 0..maxIterations, and
\* the count is maxIterations exactly when |z|^2 <= 4 held at every check
\* the loop made (the checks 0 to count).
C6_LimitIffAllChecksHeld ==
  Probed =>
    LET q == sweep.probe
    IN  /\ q.iteration \in 0..q.maxIterations
        /\ q.iteration = q.maxIterations
             <=> ChecksHold(R(0), R(0), 0, q.iteration, q.x0, q.y0)

\* C6, amended: the escape loop ends with a count in 0..maxIterations, and
\* the count is maxIterations exactly when |z|^2 <= 4 held at every check
\* that stood before an iteration (the checks 0 to maxIterations - 1); the
\* check made once the count is maxIterations may fail.  A count below
\* maxIterations is the number of the first check that failed.
C6_LimitIffChecksBeforeIterationsHeld ==
  Probed =>
    LET q == sweep.probe
    IN  /\ q.iteration \in 0..q.maxIterations
        /\ q.iteration = q.maxIterations
             <=> ChecksHold(R(0), R(0), 0, q.maxIterations - 1, q.x0, q.y0)
        /\ q.iteration < q.maxIterations
             => /\ ChecksHold(R(0), R(0), 0, q.iteration - 1, q.x0, q.y0)
                /\ ~ChecksHold(R(0), R(0), 0, q.iteration, q.x0, q.y0)

\* the count is the limit although the orbit has left the circle: the last
\* check failed
C6_Witness ==
  /\ Probed
  /\ sweep.probe.iteration = sweep.probe.maxIterations
  /\ ~ChecksHold(R(0), R(0), 0, sweep.probe.iteration,
                 sweep.probe.x0, sweep.probe.y0)

\* C7 as stated: for a point with x0^2 + y0^2 > 4 and a limit of at least 1
\* the loop returns 0.
C7_OutsideCountsZero ==
  (Probed /\ RLt(R(4), Norm2(sweep.probe.x0, sweep.probe.y0))
          /\ sweep.probe.maxIterations >= 1)
    => sweep.probe.iteration = 0

\* C7, amended: for a point with x0^2 + y0^2 > 4 and a limit of at least 1
\* the loop returns 1: its first check is made on z = 0 and holds, its
\* second on z = x0 + i y0 and fails.
C7_OutsideCountsOne ==
  (Probed /\ RLt(R(4), Norm2(sweep.probe.x0, sweep.probe.y0))
          /\ sweep.probe.maxIterations >= 1)
    => sweep.probe.iteration = 1

\* the loop has returned 1 for a point outside the circle, under a limit
\* above 1
C7_Witness ==
  /\ Probed
  /\ RLt(R(4), Norm2(sweep.probe.x0, sweep.probe.y0))
  /\ sweep.probe.maxIterations = 50
  /\ sweep.probe.iteration = 1

\* C15 as stated: the three channels getColor returns are integers in
\* 0..255, for every scheme, limit and count; the green of the matrix
\* palette is round(255 * t * 2) clamped to 0..255.
C15_ChannelsAreBytes ==
  Probed =>
    LET q == sweep.probe
        t == Rat(q.iteration, q.maxIterations)
    IN  /\ \A k \in 1..3 :
             /\ q.rgb[k][2] = 1
             /\ q.rgb[k][1] \in 0..255
        /\ (q.colorScheme = "matrix" /\ q.iteration < q.maxIterations)
             => q.rgb[2] = RMin(R(255), R(MathRound(RMul(R(510), t))))

\* C16: for a count equal to the limit getColor returns black under each
\* of the palettes, and whatever the clock says.
C16_SentinelBlack ==
  (Probed /\ sweep.probe.iteration = sweep.probe.maxIterations)
    => /\ sweep.probe.rgb = <<R(0), R(0), R(0)>>
       /\ \A now \in NowValues, scheme \in ColorSchemes :
            GetColor(sweep.probe.iteration, sweep.probe.maxIterations,
                     scheme, now) = <<R(0), R(0), R(0)>>

\* a point of the set has been coloured under the palette that reads the
\* clock, at a time when the clock moves its hues
C16_Witness ==
  /\ Probed
  /\ sweep.probe.iteration = sweep.probe.maxIterations
  /\ sweep.probe.maxIterations = 50
  /\ sweep.probe.colorScheme = "psychedelic"
  /\ sweep.now = 2500
  /\ sweep.probe.rgb = <<R(0), R(0), R(0)>>

\* C17 as stated: on a canvas whose width or height is 0 a render request
\* raises no error, and once it is made and no sweep of it waits or runs,
\* no pixel has been computed and the rendering flag is false.
C17_EmptyCanvasRendersEmpty ==
  ((canvas.width = 0 \/ canvas.height = 0) /\ last.op # "commit")
    => /\ last.op # "IndexSizeError"
       /\ (pending = <<>> /\ (sweep = None \/ sweep.put))
            => (~isRendering /\ (sweep # None => sweep.probe = None))

\* C21: for the point (-0.5, 0) the escape loop returns its limit, whatever
\* the limit: the orbit never leaves the circle.
C21_RootNeverEscapes ==
  (Probed /\ sweep.probe.x0 = Rat(-1, 2) /\ sweep.probe.y0 = R(0))
    => sweep.probe.iteration = sweep.probe.maxIterations

\* the loop has run to the default limit on the point (-0.5, 0)
C21_Witness ==
  /\ Probed
  /\ sweep.probe.x0 = Rat(-1, 2) /\ sweep.probe.y0 = R(0)
  /\ sweep.probe.maxIterations = 120
  /\ sweep.probe.iteration = 120

\* C22: for a fixed point the count does not decrease as the limit grows,
\* and under a lower limit n the count is the smaller of n and the count
\* under the higher limit: never above either.
C22_CountMonotoneInLimit ==
  Probed =>
    LET q == sweep.probe
    IN  \A n \in PixelCaps :
          n < q.maxIterations
            => /\ Iterate(q.x0, q.y0, n) <= q.iteration
               /\ Iterate(q.x0, q.y0, n) <= n
               /\ Iterate(q.x0, q.y0, n)
                    = (IF q.iteration < n THEN q.iteration ELSE n)

\* a point that leaves the circle after 11 turns, under a limit above and
\* with limits below that count
C22_Witness ==
  /\ Probed
  /\ sweep.probe.maxIterations = 50
  /\ sweep.probe.iteration = 11
  /\ Iterate(sweep.probe.x0, sweep.probe.y0, 3) = 3

\* the plane's extent over the canvas of a frame: from the left edge (px =
\* 0) to the right (px = width), and from the top to the bottom
SpanX(snap) ==
  RSub(PixelToPlaneX(snap.view.centerX, snap.view.zoom, snap.width,
                     snap.width, snap.height),
       PixelToPlaneX(snap.view.centerX, snap.view.zoom, 0,
                     snap.width, snap.height))
SpanY(snap) ==
  RSub(PixelToPlaneY(snap.view.centerY, snap.view.zoom, snap.height,
                     snap.height),
       PixelToPlaneY(snap.view.centerY, snap.view.zoom, 0, snap.height))

\* the sweep has mapped the pixel (width / 2, height / 2) of its frame
AtCentrePixel ==
  /\ Probed
  /\ 2 * sweep.probe.px = sweep.job.snap.width
  /\ 2 * sweep.probe.py = sweep.job.snap.height

\* C23 as stated: at zoom 1 the plane region on the canvas is 3.5 wide,
\* whatever the canvas' width and height, and the pixel (width / 2,
\* height / 2) maps to (centerX, centerY).
C23_HorizontalSpanIsScale ==
  (sweep # None /\ sweep.job.snap.view.zoom = R(1))
    => /\ SpanX(sweep.job.snap) = Rat(7, 2)
       /\ AtCentrePixel => /\ sweep.probe.x0 = sweep.job.snap.view.centerX
                           /\ sweep.probe.y0 = sweep.job.snap.view.centerY

\* C23, amended: at zoom 1 the plane region on the canvas is 3.5 high and
\* 3.5 * width / height wide, so 3.5 wide on a square canvas only, and the
\* pixel (width / 2, height / 2) maps to (centerX, centerY).
C23_VerticalSpanIsScale ==
  (sweep # None /\ sweep.job.snap.view.zoom = R(1))
    => /\ SpanY(sweep.job.snap) = Rat(7, 2)
       /\ SpanX(sweep.job.snap)
            = RMul(Rat(7, 2), Rat(sweep.job.snap.width, sweep.job.snap.height))
       /\ AtCentrePixel => /\ sweep.probe.x0 = sweep.job.snap.view.centerX
                           /\ sweep.probe.y0 = sweep.job.snap.view.centerY

\* the centre pixel of a canvas that is not square has been mapped
C23_Witness ==
  /\ AtCentrePixel
  /\ sweep.job.snap.width = 800 /\ sweep.job.snap.height = 600
  /\ sweep.job.snap.view.zoom = R(1)
  /\ sweep.probe.x0 = sweep.job.snap.view.centerX

\* the four bytes of the pixel (px, py) of a frame, as its viewport, its
\* canvas size and a clock reading decide them
FrameBytes(snap, px, py, now) ==
  LET v   == snap.view
      x0  == PixelToPlaneX(v.centerX, v.zoom, px, snap.width, snap.height)
      y0  == PixelToPlaneY(v.centerY, v.zoom, py, snap.height)
      rgb == GetColor(Iterate(x0, y0, v.maxIterations), v.maxIterations,
                      v.colorScheme, now)
  IN  <<ToUint8Clamp(rgb[1]), ToUint8Clamp(rgb[2]), ToUint8Clamp(rgb[3]), 255>>

\* C24: under every palette but the psychedelic one the bytes of a frame
\* are decided by its viewport and its canvas size alone: the bytes the
\* sweep has just written are those of FrameBytes whatever the clock read
\* during the sweep, they start from a buffer of zeros, and no later step
\* of the sweep changes a byte that was written.
C24_BufferDeterminedByFrame ==
  /\ [](( Probed /\ sweep.job.snap.view.colorScheme # "psychedelic" )
          => \A now \in NowValues :
               LET i == (sweep.probe.py * sweep.job.snap.width
                           + sweep.probe.px) * 4
               IN  <<sweep.data[i], sweep.data[i + 1], sweep.data[i + 2],
                     sweep.data[i + 3]>>
                     = FrameBytes(sweep.job.snap, sweep.probe.px,
                                  sweep.probe.py, now))
  /\ [][ (sweep # None /\ sweep' # None)
           => \A i \in DOMAIN sweep.data :
                sweep.writes[i] > 0 => sweep'.data[i] = sweep.data[i] ]_vars
  /\ [][ (sweep = None /\ sweep' # None)
           => \A i \in DOMAIN sweep'.data : sweep'.data[i] = 0 ]_vars

\* a frame of the classic palette is on the canvas, swept while the clock
\* moved, its last pixel coloured by the palette
C24_Witness ==
  /\ sweep # None /\ sweep.put
  /\ sweep.job.snap.view.colorScheme = "classic"
  /\ sweep.now = 2500
  /\ sweep.probe.iteration < sweep.probe.maxIterations
  /\ sweep.probe.rgb # <<R(0), R(0), R(0)>>

\* the sweep of the default viewport on a canvas of 800 by 600 has run its
\* body for the pixel (400, 300)
DefaultCentreProbed ==
  /\ Probed
  /\ sweep.job.snap = Snapshot(DefaultView, 800, 600)
  /\ sweep.probe.px = 400 /\ sweep.probe.py = 300

\* C25: the sweep of the default viewport on a canvas of 800 by 600 maps
\* the pixel (400, 300) to the point (-0.5, 0), runs the loop to the limit
\* of 120 on it and writes (0, 0, 0, 255) at the pixel's offset.
C25_DefaultCentreIsBlack ==
  DefaultCentreProbed
    => /\ sweep.probe.x0 = Rat(-1, 2) /\ sweep.probe.y0 = R(0)
       /\ sweep.probe.iteration = 120
       /\ sweep.probe.pixelIndex = (300 * 800 + 400) * 4
       /\ sweep.probe.bytes = <<0, 0, 0, 255>>

C25_Witness ==
  /\ DefaultCentreProbed
  /\ sweep.probe.bytes = <<0, 0, 0, 255>>
  /\ sweep.px = 400 /\ sweep.py = 301

\* the pixels the sweep is through with: the columns left of px, and the
\* rows above py of column px
Swept(px, py) ==
  {q \in (0..(sweep.job.snap.width - 1)) \X (0..(sweep.job.snap.height - 1)) :
     q[1] < px \/ (q[1] = px /\ q[2] < py)}

\* C9: the sweep writes the four bytes of the pixel (px, py) at the offset
\* (py * width + px) * 4, the fourth being 255; no byte is written twice and
\* none outside the buffer, and when the buffer is put on the canvas every
\* pixel has been written.
C9_EachPixelOnce ==
  sweep # None =>
    LET width  == sweep.job.snap.width
        height == sweep.job.snap.height
        done   == Swept(sweep.px, sweep.py)
        bytes  == UNION {{(q[2] * width + q[1]) * 4 + i : i \in 0..3} :
                           q \in done}
    IN  /\ sweep.stray = {}
        /\ \A i \in DOMAIN sweep.writes :
             sweep.writes[i] = IF i \in bytes THEN 1 ELSE 0
        /\ \A q \in done : sweep.data[(q[2] * width + q[1]) * 4 + 3] = 255
        /\ sweep.put => Cardinality(done) = width * height
        /\ DOMAIN sweep.data = 0..(width * height * 4 - 1)

\* a buffer of a canvas that is not square is on the canvas, all of it
\* written
C9_Witness ==
  /\ sweep # None /\ sweep.put
  /\ sweep.job.snap.width # sweep.job.snap.height
  /\ \A i \in DOMAIN sweep.writes : sweep.writes[i] = 1

====
